---- MODULE Spec2Model ----
(***************************************************************************)
(* Model of the retrieval-augmented recommendation core:                   *)
(*   backend/app/services/enhanced_rag_service.py  (EnhancedRAGService)    *)
(*   backend/app/services/neon_vector_service.py   (NeonVectorService)     *)
(*   backend/app/api/rag_clean.py                  (POST /rag/enhanced)    *)
(*                                                                         *)
(* Strings are TLA+ strings; "x in s" of Python is IsSub(x, s).            *)
(* Similarities and thresholds are integers in hundredths (0.15 -> 15),    *)
(* prices are integers in dollars.                                         *)
(***************************************************************************)
EXTENDS Integers, Sequences, FiniteSets, TLC

\* ------------------------------------------------------------------------
\* Bounds of the model
\* ------------------------------------------------------------------------
MaxLimit == 2

\* ------------------------------------------------------------------------
\* String helpers (Python str operations)
\* ------------------------------------------------------------------------
None == "<None>"

\* Python: t in q
IsSub(t, q) ==
    \/ Len(t) = 0
    \/ \E i \in 1..(Len(q) - Len(t) + 1) : SubSeq(q, i, i + Len(t) - 1) = t

\* Python: any(p in q for p in patterns)
AnyIn(patterns, q) == \E k \in 1..Len(patterns) : IsSub(patterns[k], q)

UpperCase == {"A", "B", "C", "D", "E", "F", "G", "H", "I", "J", "K", "L", "M",
              "N", "O", "P", "Q", "R", "S", "T", "U", "V", "W", "X", "Y", "Z"}

LowerChar(c) ==
    IF c \notin UpperCase THEN c
    ELSE CASE c = "A" -> "a" [] c = "B" -> "b" [] c = "C" -> "c" [] c = "D" -> "d"
           [] c = "E" -> "e" [] c = "F" -> "f" [] c = "G" -> "g" [] c = "H" -> "h"
           [] c = "I" -> "i" [] c = "J" -> "j" [] c = "K" -> "k" [] c = "L" -> "l"
           [] c = "M" -> "m" [] c = "N" -> "n" [] c = "O" -> "o" [] c = "P" -> "p"
           [] c = "Q" -> "q" [] c = "R" -> "r" [] c = "S" -> "s" [] c = "T" -> "t"
           [] c = "U" -> "u" [] c = "V" -> "v" [] c = "W" -> "w" [] c = "X" -> "x"
           [] c = "Y" -> "y" [] c = "Z" -> "z"

\* the characters i..j of s, lower-cased
RECURSIVE LowerRange(_, _, _)
LowerRange(s, i, j) ==
    IF i = j THEN LowerChar(SubSeq(s, i, i))
    ELSE LET m == (i + j) \div 2
         IN  LowerRange(s, i, m) \o LowerRange(s, m + 1, j)

\* Python: s.lower()
Lower(s) == IF Len(s) = 0 THEN "" ELSE LowerRange(s, 1, Len(s))

\* "#" stands for a run of decimal digits longer than the interpreter's
\* limit for int(str) (sys.get_int_max_str_digits(), 4300 by default):
\* the regex \d+ matches it and int() raises ValueError on it.
HugeDigits == "#"

IsDigit(c) == c \in {"0", "1", "2", "3", "4", "5", "6", "7", "8", "9", HugeDigits}

DigitVal(c) ==
    CASE c = "0" -> 0 [] c = "1" -> 1 [] c = "2" -> 2 [] c = "3" -> 3
      [] c = "4" -> 4 [] c = "5" -> 5 [] c = "6" -> 6 [] c = "7" -> 7
      [] c = "8" -> 8 [] c = "9" -> 9 [] OTHER -> 0

CharAt(s, i) == IF i >= 1 /\ i <= Len(s) THEN SubSeq(s, i, i) ELSE ""

\* length of the greedy match of \d+ at position i (0: no digit there)
RECURSIVE DigitRun(_, _)
DigitRun(s, i) == IF IsDigit(CharAt(s, i)) THEN 1 + DigitRun(s, i + 1) ELSE 0

\* Python: int(d) for a string of digits
RECURSIVE IntOf(_)
IntOf(d) ==
    IF Len(d) = 0 THEN 0
    ELSE IF Len(d) = 1 THEN DigitVal(d)
    ELSE 10 * IntOf(SubSeq(d, 1, Len(d) - 1)) + DigitVal(SubSeq(d, Len(d), Len(d)))

\* position of the first digit of a match of \$?(\d+) anchored at i, or 0
NumAt(s, i) ==
    IF CharAt(s, i) = "$" /\ IsDigit(CharAt(s, i + 1)) THEN i + 1
    ELSE IF IsDigit(CharAt(s, i)) THEN i
    ELSE 0

\* the text of the group (\d+) whose first digit is at position j
GroupAt(s, j) == IF DigitRun(s, j) = 0 THEN "" ELSE SubSeq(s, j, j + DigitRun(s, j) - 1)

\* Python: s.startswith(kw, i - 1)
StartsAt(s, i, kw) ==
    \/ Len(kw) = 0
    \/ i >= 1 /\ i + Len(kw) - 1 <= Len(s) /\ SubSeq(s, i, i + Len(kw) - 1) = kw

\* re.search(kw + r'\$?(\d+)', s): positions where the pattern matches
OneNumMatches(s, kw) ==
    {i \in 1..Len(s) : StartsAt(s, i, kw) /\ NumAt(s, i + Len(kw)) > 0}

\* re.search(kw + r'\$?(\d+)' + mid + r'\$?(\d+)', s): a match at i has its
\* first group at NumAt(s, i + Len(kw)), then mid, then the second group
SecondNumAt(s, i, kw, mid) ==
    LET j == NumAt(s, i + Len(kw))
        e == j + DigitRun(s, j)
    IN  IF j > 0 /\ StartsAt(s, e, mid) THEN NumAt(s, e + Len(mid)) ELSE 0

TwoNumMatches(s, kw, mid) ==
    {i \in 1..Len(s) : StartsAt(s, i, kw) /\ SecondNumAt(s, i, kw, mid) > 0}

Min(S) == CHOOSE x \in S : \A y \in S : x <= y
Max(S) == CHOOSE x \in S : \A y \in S : x >= y

\* ------------------------------------------------------------------------
\* EnhancedRAGService._analyze_customer_intent / _extract_entities /
\* _extract_search_parameters
\* ------------------------------------------------------------------------
\* intent_patterns, in the dict's insertion order
IntentPatterns == <<
    [intent |-> "product_search",
     patterns |-> <<"need", "want", "looking for", "find", "search", "show me">>],
    [intent |-> "comparison",
     patterns |-> <<"compare", "vs", "versus", "difference", "better", "which">>],
    [intent |-> "recommendation",
     patterns |-> <<"recommend", "suggest", "best", "top", "should i">>],
    [intent |-> "price_inquiry",
     patterns |-> <<"price", "cost", "cheap", "expensive", "budget", "under", "below">>],
    [intent |-> "feature_inquiry",
     patterns |-> <<"features", "specs", "specifications", "details", "about">>],
    [intent |-> "availability",
     patterns |-> <<"available", "in stock", "delivery", "shipping", "when">>],
    [intent |-> "support",
     patterns |-> <<"help", "support", "how to", "problem", "issue", "not working">>] >>

\* the loop "for intent, patterns in intent_patterns.items()" run over the
\* entries k..7: the intents appended to detected_intents, in order
RECURSIVE DetectedFrom(_, _)
DetectedFrom(query_lower, k) ==
    IF k > Len(IntentPatterns) THEN << >>
    ELSE (IF AnyIn(IntentPatterns[k].patterns, query_lower)
          THEN <<IntentPatterns[k].intent>> ELSE << >>)
         \o DetectedFrom(query_lower, k + 1)

detected_intents(query_lower) == DetectedFrom(query_lower, 1)

\* categories of _extract_entities, in the dict's insertion order
Categories == <<
    [category |-> "electronics",
     keywords |-> <<"laptop", "phone", "computer", "tablet", "electronics",
                    "smartphone", "device">>],
    [category |-> "clothing",
     keywords |-> <<"shirt", "pants", "dress", "jacket", "clothing", "apparel", "wear">>],
    [category |-> "shoes",
     keywords |-> <<"shoes", "sneakers", "boots", "sandals", "footwear", "running">>],
    [category |-> "sports",
     keywords |-> <<"sports", "fitness", "exercise", "gym", "athletic", "workout">>],
    [category |-> "home",
     keywords |-> <<"home", "kitchen", "furniture", "decor", "appliances">>],
    [category |-> "beauty",
     keywords |-> <<"beauty", "makeup", "skincare", "cosmetics", "fragrance">>] >>

\* first category, in iteration order, one of whose keywords is in the query
detected_category(query_lower) ==
    LET hits == {k \in 1..Len(Categories) : AnyIn(Categories[k].keywords, query_lower)}
    IN  IF hits = {} THEN None ELSE Categories[Min(hits)].category

\* price_range is None or [min, max]
NoRange == [some |-> FALSE, lo |-> 0, hi |-> 0]
Range(a, b) == [some |-> TRUE, lo |-> a, hi |-> b]

\* the texts handed to int() by the first pattern of price_patterns that
\* matches (re.search returns the leftmost match), << >> when none matches
PriceGroups(q) ==
    LET one(kw) == LET i == Min(OneNumMatches(q, kw))
                   IN  <<GroupAt(q, NumAt(q, i + Len(kw)))>>
        two(kw, mid) == LET i == Min(TwoNumMatches(q, kw, mid))
                        IN  <<GroupAt(q, NumAt(q, i + Len(kw))),
                              GroupAt(q, SecondNumAt(q, i, kw, mid))>>
    IN  IF OneNumMatches(q, "under ") # {} THEN one("under ")
        ELSE IF OneNumMatches(q, "below ") # {} THEN one("below ")
        ELSE IF OneNumMatches(q, "less than ") # {} THEN one("less than ")
        ELSE IF TwoNumMatches(q, "between ", " and ") # {} THEN two("between ", " and ")
        ELSE IF TwoNumMatches(q, "from ", " to ") # {} THEN two("from ", " to ")
        ELSE IF TwoNumMatches(q, "", " to ") # {} THEN two("", " to ")
        ELSE << >>

\* int(match.group(k)) raises ValueError
IntRaises(q) ==
    \E k \in 1..Len(PriceGroups(q)) : IsSub(HugeDigits, PriceGroups(q)[k])

extract_price_range(q) ==
    LET g == PriceGroups(q)
    IN  IF Len(g) = 0 THEN NoRange
        ELSE IF Len(g) = 1 THEN Range(0, IntOf(g[1]))
        ELSE Range(IntOf(g[1]), IntOf(g[2]))

extract_entities(query_lower) ==
    [category |-> detected_category(query_lower),
     price_range |-> extract_price_range(query_lower)]

\* the last detected intent taken as the primary one
analyze_customer_intent_last(query) ==
    LET query_lower == Lower(query)
        detected == detected_intents(query_lower)
    IN  [primary_intent |-> IF Len(detected) > 0 THEN detected[Len(detected)]
                            ELSE "general_inquiry",
         all_intents |-> detected,
         entities |-> extract_entities(query_lower)]

analyze_customer_intent(query) ==
    LET query_lower == Lower(query)
        detected == detected_intents(query_lower)
    IN  [primary_intent |-> IF Len(detected) > 0 THEN detected[1] ELSE "general_inquiry",
         all_intents |-> detected,
         entities |-> extract_entities(query_lower)]

extract_search_parameters(query) ==
    LET query_lower == Lower(query)
        quality_high == AnyIn(<<"best", "premium", "high quality", "top", "excellent">>,
                              query_lower)
        quality_budget == AnyIn(<<"cheap", "budget", "affordable", "low cost">>, query_lower)
    IN  [quality_preference |->
             IF quality_high THEN "high"
             ELSE IF quality_budget THEN "budget" ELSE "standard",
         gender_target |->
             IF AnyIn(<<"men", "male", "guys", "him">>, query_lower) THEN "men"
             ELSE IF AnyIn(<<"women", "female", "ladies", "her">>, query_lower) THEN "women"
             ELSE IF AnyIn(<<"kids", "children", "child">>, query_lower) THEN "kids"
             ELSE None]

\* ------------------------------------------------------------------------
\* EnhancedRAGService._expand_query
\* ------------------------------------------------------------------------
Synonyms == <<
    [term |-> "computer", list |-> <<"laptop", "pc", "notebook", "ultrabook", "gaming laptop">>],
    [term |-> "laptop", list |-> <<"computer", "notebook", "ultrabook", "pc">>],
    [term |-> "pc", list |-> <<"computer", "laptop", "desktop">>],
    [term |-> "music", list |-> <<"headphones", "audio", "speaker", "sound",
                                  "wireless headphones", "bluetooth speaker">>],
    [term |-> "audio", list |-> <<"headphones", "speaker", "sound", "music",
                                  "wireless headphones">>],
    [term |-> "listen", list |-> <<"headphones", "audio", "speaker", "music",
                                   "wireless headphones">>],
    [term |-> "sound", list |-> <<"headphones", "speaker", "audio", "music",
                                  "wireless headphones">>],
    [term |-> "hear", list |-> <<"headphones", "audio", "speaker", "music">>],
    [term |-> "gaming", list |-> <<"mouse", "keyboard", "laptop", "monitor", "headphones">>],
    [term |-> "game", list |-> <<"gaming", "mouse", "keyboard", "laptop", "monitor">>],
    [term |-> "phone", list |-> <<"smartphone", "mobile", "cell phone">>],
    [term |-> "smartphone", list |-> <<"phone", "mobile">>],
    [term |-> "wireless", list |-> <<"headphones", "mouse", "speaker", "bluetooth">>],
    [term |-> "bluetooth", list |-> <<"headphones", "speaker", "wireless">>] >>

Elems(seq) == {seq[k] : k \in 1..Len(seq)}

\* the elements of the list "expanded" before list(set(expanded))
ExpandedTerms(query, intent) ==
    LET base_query == Lower(query)
        category == intent.entities.category
        primary_intent == intent.primary_intent
        direct == UNION {Elems(Synonyms[k].list) :
                            k \in {j \in 1..Len(Synonyms) : IsSub(Synonyms[j].term, base_query)}}
        by_category ==
            IF category = "electronics"
            THEN (IF IsSub("laptop", base_query) THEN {"computer", "notebook", "ultrabook"}
                  ELSE IF IsSub("phone", base_query)
                       THEN {"smartphone", "mobile", "cell phone"} ELSE {})
            ELSE IF category = "clothing"
            THEN (IF IsSub("shirt", base_query) THEN {"top", "blouse", "tee"} ELSE {})
            ELSE IF category = "shoes"
            THEN (IF IsSub("running", base_query)
                  THEN {"athletic shoes", "sneakers", "trainers"} ELSE {})
            ELSE {}
        by_intent ==
            IF primary_intent = "recommendation"
            THEN {"best " \o query, "top rated " \o query}
            ELSE IF primary_intent = "price_inquiry"
            THEN {"affordable " \o query, "budget " \o query}
            ELSE {}
    IN  direct \cup by_category \cup by_intent

\* expanded[:5] keeps this many of the distinct terms
MaxExpansions == 5

\* ------------------------------------------------------------------------
\* Inputs and the product_embeddings table
\* ------------------------------------------------------------------------
\* rows a catalog can hold in product_embeddings (product_id is UNIQUE)
ProductUniverse == {
    [id |-> 1, name |-> "Gaming Laptop Pro", category |-> "Electronics", price |-> 450],
    [id |-> 2, name |-> "Ultra Laptop", category |-> "Electronics", price |-> 1200],
    [id |-> 3, name |-> "Men Running Shoes", category |-> "Shoes", price |-> 80] }

ProductIds == {p.id : p \in ProductUniverse}

\* cosine similarities the embedding model can give, in hundredths
SimLevels == {10, 30, 90}

Queries == {"phone less than $500", "Premium phone", "affordable phone",
            "compare Phone", "women boots", "yoga mat", "under $" \o HugeDigits}

\* EnhancedRAGRequest.threshold: Optional[float], ge=0.0, le=1.0
NoThreshold == [given |-> FALSE, value |-> 0]
Threshold(v) == [given |-> TRUE, value |-> v]
Thresholds == {NoThreshold, Threshold(0), Threshold(10)}

\* self.default_similarity_threshold = 0.2
default_similarity_threshold == 20

\* outcomes of one call of search_similar_products' dependencies
SearchOutcomes == {"ok", "embedding_error", "index_error"}

\* outcomes of requests.post to the Ollama backend
LlmOutcomes == {"ok", "timeout", "rate_limited", "server_error"}

\* texts the backend can generate (result["response"])
LlmTexts == {"Here are some great options for you.",
             "Tell me your budget and try again with more detail."}

\* ------------------------------------------------------------------------
\* NeonVectorService.search_similar_products
\* ------------------------------------------------------------------------
\* WHERE embedding IS NOT NULL [AND LOWER(category) = LOWER(:category_filter)]
\*                             [AND price BETWEEN :min_price AND :max_price]
SelectRows(idx, category_filter, price_range) ==
    {p \in idx :
        /\ category_filter # None => Lower(p.category) = Lower(category_filter)
        /\ price_range.some => (price_range.lo <= p.price /\ p.price <= price_range.hi)}

\* formatted_product of a row
FormatProduct(p, sim) ==
    [id |-> p.id, name |-> p.name, category |-> p.category, price |-> p.price,
     similarity |-> sim[p.id]]

\* all arrangements of the elements of S in a sequence
Arrangements(S) ==
    {l \in [1..Cardinality(S) -> S] :
        \A a, b \in 1..Cardinality(S) : a # b => l[a] # l[b]}

Take(seq, n) == IF Len(seq) <= n THEN seq ELSE SubSeq(seq, 1, n)

\* float('nan') as a similarity: a value outside the range of a cosine
NaN == -999

\* Python: similarity >= threshold, which is False for nan
AtLeast(similarity, threshold10) == similarity # NaN /\ similarity * 10 >= threshold10

\* Python: x < y on the sort keys, which is False when either is nan
KeyLess(x, y) ==
    x.similarity # NaN /\ y.similarity # NaN /\ x.similarity < y.similarity

Reversed(seq) == [k \in 1..Len(seq) |-> seq[Len(seq) + 1 - k]]

\* list.sort's count_run: the length of the run the list starts with, which
\* is strictly descending when its second element is less than its first
RECURSIVE RunLength(_, _, _)
RunLength(seq, n, descending) ==
    IF n >= Len(seq) THEN Len(seq)
    ELSE IF KeyLess(seq[n + 1], seq[n]) = descending THEN RunLength(seq, n + 1, descending)
    ELSE n

\* list.sort's binarysort: seq[1..n] is sorted, the rest is inserted one by
\* one at the position a binary search with KeyLess finds
RECURSIVE BinaryPosition(_, _, _, _)
BinaryPosition(seq, pivot, l, r) ==
    IF l >= r THEN l
    ELSE LET mid == l + ((r - l) \div 2)
         IN  IF KeyLess(pivot, seq[mid]) THEN BinaryPosition(seq, pivot, l, mid)
             ELSE BinaryPosition(seq, pivot, mid + 1, r)

RECURSIVE BinarySort(_, _)
BinarySort(seq, n) ==
    IF n >= Len(seq) THEN seq
    ELSE LET pivot == seq[n + 1]
             at == BinaryPosition(seq, pivot, 1, n + 1)
         IN  BinarySort(SubSeq(seq, 1, at - 1) \o <<pivot>> \o SubSeq(seq, at, n)
                            \o SubSeq(seq, n + 2, Len(seq)),
                        n + 1)

\* seq.sort(key=lambda x: x['similarity'], reverse=True) of a list shorter
\* than 64: reversed, first run found (and reversed when descending), the
\* rest inserted, reversed again
SortBySimilarity(seq) ==
    IF Len(seq) < 2 THEN seq
    ELSE LET r == Reversed(seq)
             descending == KeyLess(r[2], r[1])
             n == RunLength(r, 2, descending)
             run == IF descending THEN Reversed(SubSeq(r, 1, n)) ELSE SubSeq(r, 1, n)
         IN  Reversed(BinarySort(run \o SubSeq(r, n + 1, Len(r)), n))

\* The lists search_similar_products can return; threshold10 is ten times the
\* threshold, so that similarity >= threshold is sim * 10 >= threshold10.
\* The SELECT has no ORDER BY, so rows of equal similarity come out of the
\* stable sort in any order.
search_similar_products(idx, sim, lim, threshold10, category_filter, price_range, outcome) ==
    IF outcome # "ok" THEN {<< >>}
    ELSE LET rows == SelectRows(idx, category_filter, price_range)
             hits == {FormatProduct(p, sim) :
                         p \in {r \in rows : AtLeast(sim[r.id], threshold10)}}
         IN  {Take(l, lim) :
                 l \in {a \in Arrangements(hits) :
                           \A k \in 1..(Len(a) - 1) :
                               a[k].similarity >= a[k + 1].similarity}}

\* ------------------------------------------------------------------------
\* EnhancedRAGService._enhanced_product_retrieval and its helpers
\* ------------------------------------------------------------------------
Ids(products) == {products[k].id : k \in 1..Len(products)}

\* "Merge results avoiding duplicates": the loop over additional_products
RECURSIVE MergeFrom(_, _, _)
MergeFrom(products, additional, k) ==
    IF k > Len(additional) THEN products
    ELSE MergeFrom(IF additional[k].id \in Ids(products)
                   THEN products ELSE Append(products, additional[k]),
                   additional, k + 1)

Merge(products, additional) == MergeFrom(products, additional, 1)

\* sorted(filtered, key=price, reverse=descending): a stable sort
InsertByPrice(sorted, x, descending) ==
    LET before == {i \in 1..Len(sorted) :
                      IF descending THEN sorted[i].price >= x.price
                      ELSE sorted[i].price <= x.price}
        n == Cardinality(before)
    IN  SubSeq(sorted, 1, n) \o <<x>> \o SubSeq(sorted, n + 1, Len(sorted))

RECURSIVE SortFirst(_, _, _)
SortFirst(seq, k, descending) ==
    IF k = 0 THEN << >>
    ELSE InsertByPrice(SortFirst(seq, k - 1, descending), seq[k], descending)

SortByPrice(seq, descending) == SortFirst(seq, Len(seq), descending)

GenderMatch(product, gender_target) ==
    LET product_name == Lower(product.name)
    IN  \/ gender_target = "women" /\ AnyIn(<<"women", "ladies", "female">>, product_name)
        \/ gender_target = "men" /\ AnyIn(<<"men", "male", "guys">>, product_name)
        \/ gender_target \notin {"women", "men"}

apply_intent_based_filtering(products, intent, search_params) ==
    IF Len(products) = 0 THEN products
    ELSE LET quality_pref == search_params.quality_preference
             gender_target == search_params.gender_target
             ranked == IF quality_pref = "high" THEN SortByPrice(products, TRUE)
                       ELSE IF quality_pref = "budget" THEN SortByPrice(products, FALSE)
                       ELSE products
             keep(p) == GenderMatch(p, gender_target)
             gender_filtered == SelectSeq(ranked, keep)
         IN  IF gender_target # None /\ Len(gender_filtered) > 0
             THEN gender_filtered ELSE ranked

\* ------------------------------------------------------------------------
\* EnhancedRAGService._evaluate_context_quality
\* ------------------------------------------------------------------------
\* the similarity cut-offs 0.15 and 0.4
low_cutoff == 15
mid_cutoff == 40

NoContext == [sufficient_context |-> FALSE, confidence_level |-> None,
              recommendation_strategy |-> None]

\* a boundary slip: "<=" where the code compares with "<"
SimilarityBandInclusive(max_similarity) ==
    IF max_similarity <= low_cutoff
    THEN [sufficient_context |-> FALSE, confidence_level |-> "very_low",
          recommendation_strategy |-> "query_clarification"]
    ELSE IF max_similarity <= mid_cutoff
    THEN [sufficient_context |-> TRUE, confidence_level |-> "medium",
          recommendation_strategy |-> "confident_recommendation"]
    ELSE [sufficient_context |-> TRUE, confidence_level |-> "high",
          recommendation_strategy |-> "confident_recommendation"]

\* "Evaluate context sufficiency": the if / elif / else on max_similarity
SimilarityBand(max_similarity) ==
    IF max_similarity < low_cutoff
    THEN [sufficient_context |-> FALSE, confidence_level |-> "very_low",
          recommendation_strategy |-> "query_clarification"]
    ELSE IF max_similarity < mid_cutoff
    THEN [sufficient_context |-> TRUE, confidence_level |-> "medium",
          recommendation_strategy |-> "confident_recommendation"]
    ELSE [sufficient_context |-> TRUE, confidence_level |-> "high",
          recommendation_strategy |-> "confident_recommendation"]

Similarities(products) == {products[k].similarity : k \in 1..Len(products)}

\* a boundary slip: the downgrade already at three distinct categories
evaluate_context_quality_from_three(products, intent) ==
    IF Len(products) = 0
    THEN [sufficient_context |-> FALSE, confidence_level |-> "low",
          recommendation_strategy |-> "clarify_needs"]
    ELSE LET max_similarity == Max(Similarities(products))
             categories == {products[k].category : k \in 1..Len(products)}
             banded == SimilarityBand(max_similarity)
             diverse ==
                 IF Cardinality(categories) >= 3 /\ banded.confidence_level = "high"
                 THEN [banded EXCEPT !.confidence_level = "medium"] ELSE banded
         IN  IF intent.primary_intent = "comparison" /\ Len(products) < 2
             THEN [diverse EXCEPT !.recommendation_strategy = "expand_search"]
             ELSE diverse

evaluate_context_quality(products, intent) ==
    IF Len(products) = 0
    THEN [sufficient_context |-> FALSE, confidence_level |-> "low",
          recommendation_strategy |-> "clarify_needs"]
    ELSE LET max_similarity == Max(Similarities(products))
             categories == {products[k].category : k \in 1..Len(products)}
             banded == SimilarityBand(max_similarity)
             diverse ==
                 IF Cardinality(categories) > 3 /\ banded.confidence_level = "high"
                 THEN [banded EXCEPT !.confidence_level = "medium"] ELSE banded
         IN  IF intent.primary_intent = "comparison" /\ Len(products) < 2
             THEN [diverse EXCEPT !.recommendation_strategy = "expand_search"]
             ELSE diverse

\* ------------------------------------------------------------------------
\* EnhancedRAGService._select_system_prompt / _generate_fallback_response /
\* _generate_ollama_response
\* ------------------------------------------------------------------------
\* which of the five system prompts is returned
select_system_prompt(intent, context_analysis) ==
    IF context_analysis.recommendation_strategy = "query_clarification"
    THEN "clarification"
    ELSE IF intent.primary_intent = "comparison" THEN "comparison"
    ELSE IF intent.primary_intent = "recommendation" THEN "recommendation"
    ELSE IF intent.primary_intent = "price_inquiry" THEN "price_inquiry"
    ELSE "general"

generate_fallback_response(query) ==
    "I'd be happy to help you with your search for \"" \o query \o "\"! "
    \o "While I'm having some technical difficulties with my AI assistant right now, "
    \o "I can still help you find what you're looking for. "
    \o "Could you provide a bit more detail about: "
    \o "- What specific features you're looking for - Your budget range "
    \o "- Any brand preferences - How you plan to use the product "
    \o "This will help me search our product catalog more effectively for you!"

\* the text _generate_ollama_response returns: the backend's text on status
\* 200, the fallback on any other status, RequestException or Exception
generate_ollama_response(query, outcome, text) ==
    IF outcome = "ok" THEN text ELSE generate_fallback_response(query)

\* ------------------------------------------------------------------------
\* State
\* ------------------------------------------------------------------------
VARIABLES
    index,            \* rows of product_embeddings
    query,            \* request.query
    limit,            \* request.limit
    threshold,        \* request.threshold
    pc,               \* position of the request in generate_ecommerce_response
    intent,           \* intent_analysis
    search_params,    \* search_params
    products,         \* products of _enhanced_product_retrieval, then similar_products
    primary_count,    \* len(products) after the primary search (-1 before it)
    pool,             \* expanded queries not searched yet
    issued,           \* expansion searches issued
    context_analysis, \* context_analysis
    system_prompt,    \* system prompt selected for the backend call
    llm_outcome,      \* outcome of the backend call (None before it)
    ai_response,      \* ai_response
    result,           \* what generate_ecommerce_response gave its caller
    http,             \* what POST /rag/enhanced sent
    primary_outcome,  \* outcome of the primary search's dependencies (None before it)
    llm_calls,        \* requests.post calls to the backend issued by this request
    min_similarity    \* threshold arguments of the primary and of the last expansion search

\* state of RAGService, of the embedding refresh jobs and of the index
\* operations that are called outside generate_ecommerce_response
VARIABLES
    engine,           \* one operation of RAGService and what it did
    search_call,      \* one call of search_similar_products and what it returned
    catalog,          \* rows of the products table
    job,              \* which refresh implementation is deployed
    sync,             \* per refresh run: position, remaining products, statistics
    rounds,           \* refresh runs started
    changes,          \* catalog changes made
    dirty,            \* catalog changes (id, kind) since the last run started
    written,          \* per id, the row of the last successful store_product_embedding
    searched          \* rows behind the result of the last concurrent search

\* calls of single methods with arguments of their own
VARIABLES
    expansion,        \* one call of a query expander and the list it returned
    product_search,   \* one call of RAGService._enhanced_product_search, step by step
    vector_call       \* one index operation over stored embedding vectors

method_vars == <<expansion, product_search, vector_call>>

sync_vars == <<catalog, job, sync, rounds, changes, dirty, written, searched>>

call_vars == <<engine, search_call, method_vars>>

service_vars == <<call_vars, sync_vars>>

vars == <<index, query, limit, threshold, pc, intent, search_params, products,
          primary_count, pool, issued, context_analysis, system_prompt,
          llm_outcome, ai_response, result, http, primary_outcome, llm_calls,
          min_similarity, service_vars>>

NoIntent == [primary_intent |-> None, all_intents |-> << >>,
             entities |-> [category |-> None, price_range |-> NoRange]]
NoParams == [quality_preference |-> None, gender_target |-> None]
NoResult == [raised |-> FALSE, success |-> FALSE, intent |-> None, products |-> << >>,
             ai_response |-> None, error |-> None, products_found |-> 0]
NoHttp == [status |-> 0, detail |-> None, ai_response |-> None]

\* str(e) of the ValueError int() raises on an over-long digit string
ValueErrorText ==
    "Exceeds the limit (4300 digits) for integer string conversion: "
    \o "value has 4301 digits; use sys.set_int_max_str_digits() to increase the limit"

\* no search has been issued by the request (-1: no threshold passed yet)
NoMin == [primary |-> -1, expansion |-> -1]

RequestInit ==
    /\ pc = "START"
    /\ intent = NoIntent
    /\ search_params = NoParams
    /\ products = << >>
    /\ primary_count = -1
    /\ pool = {}
    /\ issued = 0
    /\ context_analysis = NoContext
    /\ system_prompt = None
    /\ llm_outcome = None
    /\ ai_response = None
    /\ result = NoResult
    /\ http = NoHttp
    /\ primary_outcome = None
    /\ llm_calls = 0
    /\ min_similarity = NoMin

\* no operation of RAGService has been called
NoEngine == [op |-> None]

\* search_similar_products has not been called on its own
NoSearch == [pc |-> None]

\* no single method has been called
NoCall == [pc |-> None]

MethodsIdle ==
    /\ expansion = NoCall
    /\ product_search = NoCall
    /\ vector_call = NoCall

\* no refresh job exists
SyncIdle ==
    /\ catalog = {}
    /\ job = None
    /\ sync = << >>
    /\ rounds = 0
    /\ changes = 0
    /\ dirty = {}
    /\ written = << >>
    /\ searched = {}

ServiceIdle ==
    /\ engine = NoEngine
    /\ search_call = NoSearch
    /\ MethodsIdle
    /\ SyncIdle

Init ==
    /\ index \in SUBSET ProductUniverse
    /\ query \in Queries
    /\ limit \in 1..MaxLimit
    /\ threshold \in Thresholds
    /\ RequestInit
    /\ ServiceIdle

\* ------------------------------------------------------------------------
\* EnhancedRAGService.generate_ecommerce_response, step by step
\* ------------------------------------------------------------------------
\* Steps 1 and 2: intent analysis and search parameters
AnalyzeIntent ==
    /\ pc = "START"
    /\ ~IntRaises(Lower(query))
    /\ intent' = analyze_customer_intent(query)
    /\ search_params' = extract_search_parameters(query)
    /\ pc' = "INTENT_ANALYZED"
    /\ UNCHANGED <<service_vars, llm_calls, min_similarity, index, query, limit, threshold, products, primary_count, pool,
                   issued, context_analysis, system_prompt, llm_outcome,
                   ai_response, result, http, primary_outcome>>

\* the exception leaves generate_ecommerce_response: no except branch
FailureRaised(q, error) ==
    [raised |-> TRUE, success |-> FALSE, intent |-> None, products |-> << >>,
     ai_response |-> None, error |-> error, products_found |-> 0]

\* the dict of the "except Exception as e" branch
FailureResult(q, error) ==
    [raised |-> FALSE, success |-> FALSE, intent |-> "unknown", products |-> << >>,
     ai_response |-> generate_fallback_response(q), error |-> error,
     products_found |-> 0]

\* Step 1 raises (int() in _extract_entities): the except branch returns
AnalyzeIntentRaises ==
    /\ pc = "START"
    /\ IntRaises(Lower(query))
    /\ result' = FailureResult(query, ValueErrorText)
    /\ pc' = "DONE"
    /\ UNCHANGED <<service_vars, llm_calls, min_similarity, index, query, limit, threshold, intent, search_params, products,
                   primary_count, pool, issued, context_analysis, system_prompt,
                   llm_outcome, ai_response, http, primary_outcome>>

\* threshold or self.default_similarity_threshold
EffectiveThreshold(t) ==
    IF t.given /\ t.value # 0 THEN t.value ELSE default_similarity_threshold

\* the re-ranked list without the final truncation
ReturnedUntruncated(merged) ==
    apply_intent_based_filtering(merged, intent, search_params)

\* filtered_products[:limit] of the merged list
Returned(merged) ==
    Take(apply_intent_based_filtering(merged, intent, search_params), limit)

\* the results one call of search_similar_products can give, over the
\* similarities the embedding model can produce
SearchResults(idx, lim, threshold10, category_filter, price_range, outcome) ==
    UNION {search_similar_products(idx, sim, lim, threshold10, category_filter,
                                   price_range, outcome) :
              sim \in [ProductIds -> SimLevels]}

\* Step 3, primary search; when no expansion follows, also the re-rank and
\* the truncation that end _enhanced_product_retrieval
PrimarySearch ==
    /\ pc = "INTENT_ANALYZED"
    /\ \E outcome \in SearchOutcomes :
       \E found \in SearchResults(index, limit * 2, EffectiveThreshold(threshold) * 8,
                        intent.entities.category, intent.entities.price_range, outcome) :
           LET expanded == ExpandedTerms(query, intent)
           IN  /\ primary_count' = Len(found)
               /\ primary_outcome' = outcome
               /\ min_similarity' = [min_similarity EXCEPT
                                        !.primary = EffectiveThreshold(threshold) * 8]
               /\ IF Len(found) < 3 /\ expanded # {}
                  THEN /\ products' = found
                       /\ pool' = expanded
                       /\ pc' = "EXPANDING"
                  ELSE /\ products' = Returned(found)
                       /\ pool' = {}
                       /\ pc' = "RETRIEVED"
    /\ UNCHANGED <<service_vars, llm_calls, index, query, limit, threshold, intent, search_params, issued,
                   context_analysis, system_prompt, llm_outcome, ai_response,
                   result, http>>

\* Step 3, one pass of "for expanded_query in expanded_queries". The list is
\* list(set(expanded))[:5]: a set of str iterates in an order that depends on
\* the process's hash seed, so the next query is any term not taken yet, and
\* at most MaxExpansions are taken. The pass that ends the loop also does the
\* re-rank and the truncation, and the local list is dropped on return.
ExpansionSearch ==
    /\ pc = "EXPANDING"
    /\ \E outcome \in SearchOutcomes :
       \E additional \in SearchResults(index, 5, EffectiveThreshold(threshold) * 6,
                             None, NoRange, outcome) :
       \E expanded_query \in pool :
           LET merged == Merge(products, additional)
           IN  /\ issued' = issued + 1
               /\ min_similarity' = [min_similarity EXCEPT
                                        !.expansion = EffectiveThreshold(threshold) * 6]
               /\ IF \/ Len(merged) >= limit
                     \/ issued' = MaxExpansions
                     \/ pool \ {expanded_query} = {}
                  THEN /\ products' = Returned(merged)
                       /\ pool' = {}
                       /\ pc' = "RETRIEVED"
                  ELSE /\ products' = merged
                       /\ pool' = pool \ {expanded_query}
                       /\ pc' = "EXPANDING"
    /\ UNCHANGED <<service_vars, llm_calls, index, query, limit, threshold, intent, search_params,
                   primary_count, primary_outcome, context_analysis, system_prompt,
                   llm_outcome, ai_response, result, http>>

\* Step 4: context evaluation
EvaluateContext ==
    /\ pc = "RETRIEVED"
    /\ context_analysis' = evaluate_context_quality(products, intent)
    /\ pc' = "CONTEXT_EVALUATED"
    /\ UNCHANGED <<service_vars, llm_calls, min_similarity, index, query, limit, threshold, intent, search_params, products,
                   primary_count, pool, issued, system_prompt, llm_outcome,
                   ai_response, result, http, primary_outcome>>

\* a backend call that is repeated after a failure
BackendCallsRetry(outcome) == IF outcome = "ok" THEN 1 ELSE 2

\* requests.post calls _generate_ollama_response issues: one, whatever the
\* outcome; every failure branch returns _generate_fallback_response
BackendCalls(outcome) == 1

\* Steps 5 and 6: the prompt is selected and the backend is called once
GenerateResponse ==
    /\ pc = "CONTEXT_EVALUATED"
    /\ \E outcome \in LlmOutcomes, text \in LlmTexts :
          /\ llm_outcome' = outcome
          /\ llm_calls' = llm_calls + BackendCalls(outcome)
          /\ ai_response' = generate_ollama_response(query, outcome, text)
          /\ pc' = IF outcome = "ok" THEN "TEMPLATE_RESPONSE" ELSE "FALLBACK_RESPONSE"
    /\ system_prompt' = select_system_prompt(intent, context_analysis)
    /\ UNCHANGED <<service_vars, min_similarity, index, query, limit, threshold, intent, search_params, products,
                   primary_count, pool, issued, context_analysis, result, http,
                   primary_outcome>>

\* Step 7 and the return of the success dict
ReturnResult ==
    /\ pc \in {"TEMPLATE_RESPONSE", "FALLBACK_RESPONSE"}
    /\ result' = [raised |-> FALSE, success |-> TRUE, intent |-> intent.primary_intent,
                  products |-> products, ai_response |-> ai_response,
                  error |-> None, products_found |-> Len(products)]
    /\ pc' = "DONE"
    /\ UNCHANGED <<service_vars, llm_calls, min_similarity, index, query, limit, threshold, intent, search_params, products,
                   primary_count, pool, issued, context_analysis, system_prompt,
                   llm_outcome, ai_response, http, primary_outcome>>

\* ------------------------------------------------------------------------
\* rag_clean.enhanced_rag_query (POST /rag/enhanced)
\* ------------------------------------------------------------------------
enhanced_rag_query(res) ==
    IF ~res.success
    THEN [status |-> 500, detail |-> "Enhanced RAG failed: " \o res.error,
          ai_response |-> None]
    ELSE IF res.products_found = 0
    THEN [status |-> 404, detail |-> "No products found matching the query criteria",
          ai_response |-> None]
    ELSE IF \/ IsSub("technical difficulties", Lower(res.ai_response))
            \/ IsSub("try again", Lower(res.ai_response))
    THEN [status |-> 503, detail |-> "AI service unavailable", ai_response |-> None]
    ELSE [status |-> 200, detail |-> None, ai_response |-> res.ai_response]

EndpointReply ==
    /\ pc = "DONE"
    /\ http' = enhanced_rag_query(result)
    /\ pc' = "REPLIED"
    /\ UNCHANGED <<service_vars, llm_calls, min_similarity, index, query, limit, threshold, intent, search_params, products,
                   primary_count, pool, issued, context_analysis, system_prompt,
                   llm_outcome, ai_response, result, primary_outcome>>

Next ==
    \/ AnalyzeIntent
    \/ AnalyzeIntentRaises
    \/ PrimarySearch
    \/ ExpansionSearch
    \/ EvaluateContext
    \/ GenerateResponse
    \/ ReturnResult
    \/ EndpointReply

Spec == Init /\ [][Next]_vars

\* ------------------------------------------------------------------------
\* _evaluate_context_quality as a function of its arguments
\* ------------------------------------------------------------------------
MaxEvalProducts == 2

EvalCategories == {"Electronics", "Shoes", "Home", "Books"}
EvalSims == {10, 14, 15, 39, 40, 90}

\* product lists of the shape search_similar_products builds
EvalProducts ==
    UNION {[1..n -> [id : {0}, name : {"Product"}, category : EvalCategories,
                     price : {100}, similarity : EvalSims]] :
              n \in 0..MaxEvalProducts}

InitEval ==
    /\ index = {}
    /\ query \in {"compare Phone", "yoga mat"}
    /\ limit = MaxEvalProducts
    /\ threshold = NoThreshold
    /\ pc = "RETRIEVED"
    /\ intent = analyze_customer_intent(query)
    /\ search_params = extract_search_parameters(query)
    /\ products \in EvalProducts
    /\ primary_count = Len(products)
    /\ pool = {}
    /\ issued = 0
    /\ context_analysis = NoContext
    /\ system_prompt = None
    /\ llm_outcome = None
    /\ ai_response = None
    /\ result = NoResult
    /\ http = NoHttp
    /\ primary_outcome = "ok"
    /\ llm_calls = 0
    /\ min_similarity = NoMin
    /\ ServiceIdle

NextEval == EvaluateContext

EvalSpec == InitEval /\ [][NextEval]_vars

\* ------------------------------------------------------------------------
\* RAGService (rag_service.py): chat response, search with RAG and product
\* recommendations
\* ------------------------------------------------------------------------
MaxRecLimit == 2

\* an id as Python holds it: an int and a str of the same digits are unequal
IntId(v) == [type |-> "int", value |-> v]
StrId(v) == [type |-> "str", value |-> v]
IdValues == {1, 2}
TypedIds == {IntId(v) : v \in IdValues} \cup {StrId(v) : v \in IdValues}

RateLimitText ==
    "I'm experiencing high demand right now. Please try again in a minute - "
    \o "I'll be ready to help you find the perfect products!"
ConnectionText ==
    "I'm having trouble connecting to our AI service at the moment. "
    \o "Please try again in a few minutes."
TechnicalText ==
    "I'm experiencing some technical difficulties. Please try again shortly, "
    \o "and I'll be happy to help you!"
NotFoundText == "Product not found for recommendations."

\* str(e) of the exceptions a backend call can raise
BackendErrors == {"Error code: 429 - Rate limit exceeded",
                  "APIConnectionError: Connection error.",
                  "Request timed out."}

\* what one call of the backend gives: a completion, a status or an exception
BackendReplies ==
    {[kind |-> "completion", status |-> 200, text |-> "Here is what I found for you."],
     [kind |-> "status", status |-> 429, text |-> None],
     [kind |-> "status", status |-> 401, text |-> None]}
    \cup {[kind |-> "exception", status |-> 0, text |-> e] : e \in BackendErrors}

\* the "except Exception as e" branch shared by every backend caller
error_response(error) ==
    LET error_str == Lower(error)
    IN  IF IsSub("rate limit", error_str) \/ IsSub("429", error_str)
        THEN RateLimitText
        ELSE IF IsSub("api", error_str) \/ IsSub("openrouter", error_str)
        THEN ConnectionText
        ELSE TechnicalText

\* _generate_llm_response and _generate_clarification_response with a client:
\* openai_client.chat.completions.create raises on every non-success status
client_response(reply) ==
    IF reply.kind = "completion" THEN reply.text
    ELSE IF reply.kind = "status"
    THEN error_response("Error code: " \o (IF reply.status = 429 THEN "429" ELSE "401"))
    ELSE error_response(reply.text)

\* _generate_search_response and _generate_recommendation_response
post_response(reply) ==
    IF reply.kind = "completion" THEN reply.text
    ELSE IF reply.kind = "status"
    THEN (IF reply.status = 429 THEN RateLimitText ELSE ConnectionText)
    ELSE error_response(reply.text)

RECURSIVE JoinNames(_, _)
JoinNames(found, n) ==
    IF n = 0 THEN ""
    ELSE IF n = 1 THEN found[1].name
    ELSE JoinNames(found, n - 1) \o ", " \o found[n].name

AutomotiveWords == <<"car", "vehicle", "auto", "toyota", "pickup", "truck">>
ComputerWords == <<"laptop", "computer">>

AutomotiveText ==
    "I'd love to help you with automotive needs! While we specialize in "
    \o "electronics, home goods, and lifestyle products, I can show you some "
    \o "great car accessories and electronics that might be useful for your vehicle."
DetailText(q) ==
    "I'm excited to help you find what you're looking for! Let me check our "
    \o "amazing product selection for '" \o q \o "'."

\* RAGService._generate_fallback_response: the text depends on the query and
\* the products only (each text is cut after the part that tells it apart)
rag_fallback_response(q, found) ==
    LET query_lower == Lower(q)
    IN  IF Len(found) = 0
        THEN IF AnyIn(AutomotiveWords, query_lower) THEN AutomotiveText
             ELSE IF AnyIn(ComputerWords, query_lower)
             THEN "Great question about " \o q \o "! I found some related "
                  \o "electronics in our collection."
             ELSE DetailText(q)
        ELSE IF Max(Similarities(found)) < 50
        THEN IF AnyIn(AutomotiveWords, query_lower) THEN AutomotiveText
             ELSE IF AnyIn(ComputerWords, query_lower)
             THEN "Great question about " \o q \o "! I found some related "
                  \o "electronics in our collection. While I search for more computer "
                  \o "options, you might be interested in our "
                  \o JoinNames(found, Min({2, Len(found)})) \o "."
             ELSE "Thanks for your interest in '" \o q \o "'! I found some "
                  \o "products that might be related"
        ELSE IF Len(found) = 1
        THEN "Perfect! I found an excellent option that might interest you: "
             \o found[1].name \o "."
        ELSE "Great! I found " \o ToString(Len(found)) \o " interesting options including "
             \o JoinNames(found, Min({3, Len(found)})) \o "."

\* RAGService._analyze_context_quality: sufficient_context
sufficient_context(found) ==
    Len(found) > 0 /\ Max(Similarities(found)) >= 30

\* ---- inputs of the RAGService operations ----
EngineQueries == {"laptop stand", "car charger", "yoga mat"}
EngineSims == {20, 50, 70}

\* rows the vector service answers with; ids have the type of the index's
\* product_id column
EngineRows(id_type) ==
    {[id |-> [type |-> id_type, value |-> v],
      name |-> IF v = 1 THEN "Gaming Laptop Pro" ELSE "Ultra Laptop",
      similarity |-> s] : v \in IdValues, s \in EngineSims}

\* result lists of vector_service.search_similar_products with at most n rows:
\* distinct ids, descending similarity
EngineLists(id_type, n) ==
    {l \in UNION {[1..k -> EngineRows(id_type)] : k \in 0..n} :
        /\ \A a, b \in 1..Len(l) : a # b => l[a].id # l[b].id
        /\ \A a \in 1..(Len(l) - 1) : l[a].similarity >= l[a + 1].similarity}

NoId == IntId(0)

EngineCall(op, client, q, found, product_id, lim, target, embedded) ==
    [op |-> op, openai_client |-> client, query |-> q, products |-> found,
     product_id |-> product_id, limit |-> lim, target_product |-> target,
     embedded |-> embedded,
     pc |-> "CALLED", calls |-> 0, response |-> None, recommendations |-> << >>]

ChatCalls ==
    {EngineCall("generate_response", c, q, l, NoId, 0, FALSE, FALSE) :
        c \in BOOLEAN, q \in EngineQueries, l \in EngineLists("int", 2)}

SearchCalls ==
    {EngineCall("search_products_with_rag", c, q, l, NoId, 0, FALSE, FALSE) :
        c \in BOOLEAN, q \in EngineQueries, l \in EngineLists("int", 2)}

\* limit + 1 rows are asked of the vector service; target_product: the
\* product is in the catalog; embedded: it has a row in the index, and only
\* then can the vector service return it
RecommendationCalls ==
    {call \in UNION {{EngineCall("get_product_recommendations", c, "", l, i, lim, t, e) :
                         c \in BOOLEAN, i \in TypedIds, t \in BOOLEAN, e \in BOOLEAN,
                         l \in EngineLists(id_type, lim + 1)} :
                     id_type \in {"int", "str"}, lim \in 1..MaxRecLimit} :
        \/ call.embedded
        \/ \A k \in 1..Len(call.products) :
               call.products[k].id.value # call.product_id.value}

\* NeonVectorService.get_product_recommendations is called with an id the
\* driver binds by value, on the rows of product_embeddings
SimilarCalls ==
    {EngineCall("similar_to", FALSE, "", << >>, i, lim, FALSE, FALSE) :
        i \in TypedIds, lim \in 1..MaxRecLimit}

\* replies the backend can give: without an API key no completion is served
Replies(client) ==
    IF client THEN BackendReplies
    ELSE {r \in BackendReplies : r.kind = "exception" \/ r.status = 401}

InitEngine ==
    /\ engine \in ChatCalls \cup SearchCalls \cup RecommendationCalls \cup SimilarCalls
    /\ search_call = NoSearch
    /\ MethodsIdle
    /\ index \in IF engine.op = "similar_to" THEN SUBSET ProductUniverse ELSE {{}}
    /\ query = ""
    /\ limit = 1
    /\ threshold = NoThreshold
    /\ RequestInit
    /\ SyncIdle

request_vars == <<query, limit, threshold, pc, intent, search_params, products,
                  primary_count, pool, issued, context_analysis, system_prompt,
                  llm_outcome, ai_response, result, http, primary_outcome,
                  llm_calls, min_similarity>>

pipeline_vars == <<index, request_vars, sync_vars, search_call, method_vars>>

\* RAGService.generate_response, Step 6 (similar_products is what
\* _enhanced_product_search returned)
ChatResponse ==
    /\ engine.op = "generate_response" /\ engine.pc = "CALLED"
    /\ IF engine.openai_client /\ (sufficient_context(engine.products)
                                   \/ Len(engine.products) > 0)
       THEN \E reply \in Replies(engine.openai_client) :
               engine' = [engine EXCEPT !.pc = "RETURNED", !.calls = @ + 1,
                                        !.response = client_response(reply)]
       ELSE engine' = [engine EXCEPT !.pc = "RETURNED",
                          !.response = rag_fallback_response(engine.query,
                                                             engine.products)]
    /\ UNCHANGED pipeline_vars

\* RAGService.search_products_with_rag: _generate_search_response posts to
\* the backend without looking at api_key or openai_client
SearchWithRag ==
    /\ engine.op = "search_products_with_rag" /\ engine.pc = "CALLED"
    /\ \E reply \in Replies(engine.openai_client) :
          engine' = [engine EXCEPT !.pc = "RETURNED", !.calls = @ + 1,
                                   !.response = post_response(reply)]
    /\ UNCHANGED pipeline_vars

\* [p for p in similar_products if p.get('id') != product_id]
ExcludeTarget(similar_products, product_id) ==
    SelectSeq(similar_products, LAMBDA p : p.id # product_id)

\* RAGService.get_product_recommendations
ProductRecommendations ==
    /\ engine.op = "get_product_recommendations" /\ engine.pc = "CALLED"
    /\ IF ~engine.target_product
       THEN engine' = [engine EXCEPT !.pc = "RETURNED", !.response = NotFoundText]
       ELSE \E reply \in Replies(engine.openai_client) :
               engine' = [engine EXCEPT
                   !.pc = "RETURNED", !.calls = @ + 1,
                   !.response = post_response(reply),
                   !.recommendations =
                       Take(ExcludeTarget(engine.products, engine.product_id),
                            engine.limit)]
    /\ UNCHANGED pipeline_vars

\* the recommendations of NeonVectorService.get_product_recommendations: the
\* rows other than the target's, fetched in any order (no ORDER BY), every
\* one appended with its similarity to the target's embedding, sorted by
\* similarity and cut to limit; nothing when the target has no row
get_product_recommendations(idx, sim, product_id, lim) ==
    IF \A p \in idx : p.id # product_id.value THEN {<< >>}
    ELSE LET other_products == {p \in idx : p.id # product_id.value}
             recommendations ==
                 {[id |-> IntId(p.id), name |-> p.name, similarity |-> sim[p.id]] :
                     p \in other_products}
         IN  {Take(SortBySimilarity(a), lim) : a \in Arrangements(recommendations)}

SimilarTo ==
    /\ engine.op = "similar_to" /\ engine.pc = "CALLED"
    /\ \E sim \in [ProductIds -> SimLevels] :
       \E recommendations \in get_product_recommendations(index, sim,
                                   engine.product_id, engine.limit) :
          engine' = [engine EXCEPT
              !.pc = "RETURNED",
              !.embedded = \E p \in index : p.id = engine.product_id.value,
              !.recommendations = recommendations]
    /\ UNCHANGED pipeline_vars

NextEngine ==
    \/ ChatResponse
    \/ SearchWithRag
    \/ ProductRecommendations
    \/ SimilarTo

EngineSpec == InitEngine /\ [][NextEngine]_vars

\* ------------------------------------------------------------------------
\* Embedding refresh: RAGService.update_product_embeddings,
\* NeonVectorService.sync_all_products_to_vectors and the populate script
\* ------------------------------------------------------------------------
MaxRounds == 2
MaxChanges == 1

Jobs == {"update_product_embeddings", "sync_all_products_to_vectors",
         "populate_real_embeddings"}
Runs == {1, 2}
CatalogIds == {1, 2}

\* the products table at the start: every product active
InitialCatalog ==
    {[id |-> p.id, name |-> p.name, category |-> p.category, price |-> p.price,
      is_active |-> TRUE] : p \in {u \in ProductUniverse : u.id \in CatalogIds}}

\* params of the INSERT: the product's columns (the embedding and
\* text_content are computed from these)
Row(product) ==
    [id |-> product.id, name |-> product.name, category |-> product.category,
     price |-> product.price]

\* supabase.table('product_embeddings').insert(product_data) of a new id
insert_product_embedding(idx, row) == idx \cup {row}

\* an INSERT without the ON CONFLICT clause into a table without the key
store_without_conflict_clause(idx, row) == idx \cup {row}

\* INSERT ... ON CONFLICT (product_id) DO UPDATE SET ...
store_product_embedding(idx, row) ==
    {r \in idx : r.id # row.id} \cup {row}

\* db.query(Product).all() in RAGService, is_active = true in the other two
Fetch(j, products_table) ==
    IF j = "update_product_embeddings" THEN products_table
    ELSE {p \in products_table : p.is_active}

\* what can happen to one product: create_product_embedding raises, or the
\* statement that stores the row fails in the database
StoreOutcomes == {"ok", "encode_error", "store_error"}

NoStats == [processed |-> 0, successful |-> 0, failed |-> 0, skipped |-> 0]
NoProduct == [id |-> 0, name |-> "", category |-> "", price |-> 0, is_active |-> FALSE]

IdleRun ==
    [pc |-> "idle", todo |-> << >>, product |-> NoProduct, total |-> 0,
     stats |-> NoStats, success |-> FALSE, aborted |-> FALSE, faults |-> 0,
     skipped_ids |-> {}, changed |-> {}, previous |-> NoStats, round |-> 0]

NoWritten == [id |-> 0, name |-> "", category |-> "", price |-> 0]

InitSync ==
    /\ index = {}
    /\ query = ""
    /\ limit = 1
    /\ threshold = NoThreshold
    /\ RequestInit
    /\ engine = NoEngine
    /\ search_call = NoSearch
    /\ MethodsIdle
    /\ catalog \in (SUBSET InitialCatalog) \ {{}}
    /\ job \in Jobs
    /\ sync = [r \in Runs |-> IdleRun]
    /\ rounds = 0
    /\ changes = 0
    /\ dirty = {}
    /\ written = [i \in CatalogIds |-> NoWritten]
    /\ searched = {}

\* the job reads the products it will process; the SELECT has no ORDER BY
StartRefresh(r) ==
    /\ sync[r].pc \in {"idle", "done"}
    /\ rounds < MaxRounds
    /\ rounds' = rounds + 1
    /\ \E todo \in Arrangements(Fetch(job, catalog)) :
          sync' = [sync EXCEPT ![r] =
              [IdleRun EXCEPT
                  !.pc = IF todo = << >> /\ job # "update_product_embeddings"
                         THEN "done" ELSE "loop",
                  !.todo = todo, !.total = Len(todo), !.changed = dirty,
                  !.previous = sync[r].stats, !.round = sync[r].round + 1]]
    /\ dirty' = {}
    /\ UNCHANGED <<index, request_vars, call_vars, catalog, job, changes, written, searched>>

\* populate script: "Check if embedding already exists", and the skip
CheckExisting(r) ==
    /\ job = "populate_real_embeddings"
    /\ sync[r].pc = "loop" /\ sync[r].todo # << >>
    /\ LET product == Head(sync[r].todo)
           started == [sync[r] EXCEPT !.todo = Tail(@), !.stats.processed = @ + 1]
       IN  sync' = [sync EXCEPT ![r] =
               IF \E row \in index : row.id = product.id
               THEN [started EXCEPT !.stats.skipped = @ + 1,
                                    !.skipped_ids = @ \cup {product.id}]
               ELSE [started EXCEPT !.pc = "insert", !.product = product]]
    /\ UNCHANGED <<index, request_vars, call_vars, catalog, job, rounds, changes,
                   dirty, written, searched>>

\* populate script: encode, then supabase.table(...).insert(product_data);
\* product_id is UNIQUE, so inserting an id that is there raises
InsertEmbedding(r, outcomes) ==
    /\ job = "populate_real_embeddings"
    /\ sync[r].pc = "insert"
    /\ \E outcome \in outcomes :
          LET product == sync[r].product
              back == [sync[r] EXCEPT !.pc = "loop", !.product = NoProduct]
          IN  IF outcome = "ok" /\ ~\E row \in index : row.id = product.id
              THEN /\ index' = insert_product_embedding(index, Row(product))
                   /\ sync' = [sync EXCEPT ![r] =
                                  [back EXCEPT !.stats.successful = @ + 1]]
              ELSE /\ index' = index
                   /\ sync' = [sync EXCEPT ![r] =
                                  [back EXCEPT !.stats.failed = @ + 1,
                                      !.faults = IF outcome = "ok" THEN @ ELSE @ + 1]]
    /\ UNCHANGED <<request_vars, call_vars, catalog, job, rounds, changes, dirty,
                   written, searched>>

\* RAGService.update_product_embeddings and sync_all_products_to_vectors: one
\* pass of "for product in products". sync_all_products_to_vectors stores
\* through the job's own Session; store_product_embedding catches a failed
\* statement and returns False without db.rollback(), which leaves the
\* Session's transaction aborted, so every later statement of the job fails.
UpsertEmbedding(r, outcomes) ==
    /\ job \in {"update_product_embeddings", "sync_all_products_to_vectors"}
    /\ sync[r].pc = "loop" /\ sync[r].todo # << >>
    /\ \E outcome \in outcomes :
          LET product == Head(sync[r].todo)
              started == [sync[r] EXCEPT !.todo = Tail(@), !.stats.processed = @ + 1]
          IN  IF outcome = "ok" /\ ~sync[r].aborted
              THEN /\ index' = store_product_embedding(index, Row(product))
                   /\ written' = [written EXCEPT ![product.id] = Row(product)]
                   /\ sync' = [sync EXCEPT ![r] =
                                  [started EXCEPT !.stats.successful = @ + 1]]
              ELSE /\ index' = index
                   /\ written' = written
                   /\ sync' = [sync EXCEPT ![r] =
                          [started EXCEPT
                              !.stats.failed = @ + 1,
                              !.faults = IF outcome = "ok" THEN @ ELSE @ + 1,
                              !.aborted = \/ @
                                          \/ /\ job = "sync_all_products_to_vectors"
                                             /\ outcome = "store_error"]]
    /\ UNCHANGED <<request_vars, call_vars, catalog, job, rounds, changes, dirty,
                   searched>>

\* the loop is over: the statistics are returned
FinishRefresh(r) ==
    /\ sync[r].pc = "loop" /\ sync[r].todo = << >>
    /\ sync' = [sync EXCEPT ![r] =
           [@ EXCEPT !.pc = "done",
                     !.success = IF job = "populate_real_embeddings"
                                 THEN sync[r].stats.successful > 0 ELSE TRUE]]
    /\ UNCHANGED <<index, request_vars, call_vars, catalog, job, rounds, changes,
                   dirty, written, searched>>

\* ProductService.update_product (a new price) or delete_product (which sets
\* is_active = False), while no job runs; neither touches product_embeddings
CatalogChange ==
    /\ \A r \in Runs : sync[r].pc \in {"idle", "done"}
    /\ changes < MaxChanges
    /\ changes' = changes + 1
    /\ \E p \in catalog, kind \in {"update_product", "delete_product"} :
          /\ kind = "delete_product" => p.is_active
          /\ catalog' = IF kind = "delete_product"
                        THEN (catalog \ {p}) \cup {[p EXCEPT !.is_active = FALSE]}
                        ELSE (catalog \ {p}) \cup {[p EXCEPT !.price = @ + 1]}
          /\ dirty' = dirty \cup {[id |-> p.id, kind |-> kind]}
    /\ UNCHANGED <<index, request_vars, call_vars, job, sync, rounds, written, searched>>

\* a search runs against the index: the rows its result was built from
IndexSearch ==
    /\ \E sim \in [ProductIds -> SimLevels] :
       \E found \in search_similar_products(index, sim, MaxLimit,
                        default_similarity_threshold * 10, None, NoRange, "ok") :
          searched' = {[id |-> found[k].id, name |-> found[k].name,
                        category |-> found[k].category, price |-> found[k].price] :
                          k \in 1..Len(found)}
    /\ UNCHANGED <<index, request_vars, call_vars, catalog, job, sync, rounds, changes,
                   dirty, written>>

\* ---- one job at a time, the catalog changing between jobs ----
JobStart == StartRefresh(1)
JobCheck == CheckExisting(1)
JobInsert == InsertEmbedding(1, StoreOutcomes)
JobUpsert == UpsertEmbedding(1, StoreOutcomes)
JobFinish == FinishRefresh(1)

NextSync ==
    \/ JobStart
    \/ JobCheck
    \/ JobInsert
    \/ JobUpsert
    \/ JobFinish
    \/ CatalogChange

SyncSpec == InitSync /\ [][NextSync]_vars

\* ---- two jobs and searches interleaved, no failure of a dependency ----
AnyStart == \E r \in Runs : StartRefresh(r)
AnyCheck == \E r \in Runs : CheckExisting(r)
AnyInsert == \E r \in Runs : InsertEmbedding(r, {"ok"})
AnyUpsert == \E r \in Runs : UpsertEmbedding(r, {"ok"})
AnyFinish == \E r \in Runs : FinishRefresh(r)

NextConcurrent ==
    \/ AnyStart
    \/ AnyCheck
    \/ AnyInsert
    \/ AnyUpsert
    \/ AnyFinish
    \/ IndexSearch

ConcurrentSpec == InitSync /\ [][NextConcurrent]_vars

\* ------------------------------------------------------------------------
\* search_similar_products of NeonVectorService and of VectorService, called
\* with arguments of its own on the rows a writer has stored
\* ------------------------------------------------------------------------
SearchCategories == {None, "electronics", "Shoes"}
SearchPriceRanges == {NoRange, Range(80, 450), Range(0, 100)}
SearchThresholds == {0, 30, 70}

\* the column of product_embeddings a writer puts the embedding in:
\* store_product_embedding of both services and the populate script write
\* "embedding", simple_populate_embeddings writes "embedding_json"
embedding_column(writer) ==
    IF writer = "simple_populate_embeddings" THEN "embedding_json" ELSE "embedding"

\* the services and the writers that fill the table each of them reads
StoredBy == {
    [service |-> "NeonVectorService", writer |-> "store_product_embedding"],
    [service |-> "VectorService", writer |-> "store_product_embedding"],
    [service |-> "VectorService", writer |-> "simple_populate_embeddings"] }

\* VectorService.search_similar_products: each row is read inside a try
\* whose first statement is json.loads(product['embedding_json']), and a row
\* that raises is left out; the filters, the threshold, the sort and the
\* cut follow in this order
VectorService_search_similar_products(idx, sim, lim, threshold10, category_filter, price_range, column) ==
    LET readable == IF column = "embedding_json" THEN idx ELSE {}
        rows == SelectRows(readable, category_filter, price_range)
        hits == {FormatProduct(p, sim) :
                    p \in {r \in rows : sim[r.id] * 10 >= threshold10}}
    IN  {Take(l, lim) :
            l \in {a \in Arrangements(hits) :
                      \A k \in 1..(Len(a) - 1) :
                          a[k].similarity >= a[k + 1].similarity}}

InitSearch ==
    /\ index \in SUBSET ProductUniverse
    /\ query = ""
    /\ limit = 1
    /\ threshold = NoThreshold
    /\ RequestInit
    /\ engine = NoEngine
    /\ MethodsIdle
    /\ SyncIdle
    /\ search_call \in
           {[pc |-> "CALLED", service |-> s.service, writer |-> s.writer, sim |-> f,
             limit |-> l, threshold |-> t, category_filter |-> c, price_range |-> r,
             result |-> << >>] :
                s \in StoredBy, f \in [ProductIds -> SimLevels], l \in 1..MaxLimit,
                t \in SearchThresholds, c \in SearchCategories, r \in SearchPriceRanges}

NeonSearch ==
    /\ search_call.pc = "CALLED"
    /\ search_call.service = "NeonVectorService"
    /\ \E found \in search_similar_products(index, search_call.sim, search_call.limit,
                        search_call.threshold * 10, search_call.category_filter,
                        search_call.price_range, "ok") :
          search_call' = [search_call EXCEPT !.pc = "RETURNED", !.result = found]
    /\ UNCHANGED <<index, request_vars, engine, method_vars, sync_vars>>

SupabaseSearch ==
    /\ search_call.pc = "CALLED"
    /\ search_call.service = "VectorService"
    /\ \E found \in VectorService_search_similar_products(index, search_call.sim,
                        search_call.limit, search_call.threshold * 10,
                        search_call.category_filter, search_call.price_range,
                        embedding_column(search_call.writer)) :
          search_call' = [search_call EXCEPT !.pc = "RETURNED", !.result = found]
    /\ UNCHANGED <<index, request_vars, engine, method_vars, sync_vars>>

NextSearch == NeonSearch \/ SupabaseSearch

SearchSpec == InitSearch /\ [][NextSearch]_vars

\* ------------------------------------------------------------------------
\* The query expanders as functions of their arguments:
\* EnhancedRAGService._expand_query and
\* ECommercePromptTemplates.get_query_expansions
\* ------------------------------------------------------------------------
\* CategoryMapping.TECHNOLOGY_SYNONYMS, AUTOMOTIVE_TERMS, SPORTS_FITNESS and
\* HOME_KITCHEN, in the order get_query_expansions goes through them
CategoryMapping == <<
    [term |-> "laptop", list |-> <<"computer", "portable computer", "gaming laptop",
                                   "work laptop", "notebook">>],
    [term |-> "computer", list |-> <<"laptop", "desktop", "workstation",
                                     "gaming computer", "PC">>],
    [term |-> "phone", list |-> <<"mobile phone", "cell phone", "smartphone",
                                  "iPhone", "Android">>],
    [term |-> "tablet", list |-> <<"iPad", "tablet computer", "touchscreen device">>],
    [term |-> "headphones", list |-> <<"earphones", "earbuds", "audio gear",
                                       "wireless headphones">>],
    [term |-> "car", list |-> <<"automotive accessories", "car electronics",
                                "vehicle parts">>],
    [term |-> "pickup", list |-> <<"vehicle accessories", "automotive electronics",
                                   "car accessories">>],
    [term |-> "truck", list |-> <<"vehicle accessories", "automotive electronics",
                                  "car accessories">>],
    [term |-> "toyota", list |-> <<"automotive accessories", "car electronics">>],
    [term |-> "running", list |-> <<"athletic shoes", "sports shoes", "fitness gear">>],
    [term |-> "shoes", list |-> <<"footwear", "sneakers", "athletic shoes">>],
    [term |-> "workout", list |-> <<"fitness equipment", "exercise gear",
                                    "sports accessories">>],
    [term |-> "kitchen", list |-> <<"home appliances", "kitchen appliances", "cookware">>],
    [term |-> "cooking", list |-> <<"kitchen tools", "cookware", "kitchen appliances">>],
    [term |-> "home", list |-> <<"home goods", "household items", "home accessories">>] >>

\* the elements of "expansions" before list(set(expansions))
ExpansionTerms(q) ==
    LET query_lower == Lower(q)
    IN  UNION {Elems(CategoryMapping[k].list) :
                  k \in {j \in 1..Len(CategoryMapping) :
                            IsSub(CategoryMapping[j].term, query_lower)}}

\* list(set(...))[:k]: a set of str is listed in an order that depends on the
\* hash seed of the process, so any k distinct elements in any order
RECURSIVE Picks(_, _)
Picks(S, k) ==
    IF k = 0 \/ S = {} THEN {<< >>}
    ELSE UNION {{<<x>> \o t : t \in Picks(S \ {x}, k - 1)} : x \in S}

\* return expanded[:5] of list(set(expanded))
expand_query(q, intent_analysis) ==
    Picks(ExpandedTerms(q, intent_analysis), MaxExpansions)

\* return list(set(expansions)): no cut
get_query_expansions(q) ==
    LET terms == ExpansionTerms(q) IN Picks(terms, Cardinality(terms))

Expanders == {"_expand_query", "get_query_expansions"}

ExpanderQueries == {"smartphone", "cell phone", "music", "wireless audio",
                    "best laptop", "running car", "shoes", "yoga mat"}

InitExpand ==
    /\ index = {}
    /\ query = ""
    /\ limit = 1
    /\ threshold = NoThreshold
    /\ RequestInit
    /\ engine = NoEngine
    /\ search_call = NoSearch
    /\ SyncIdle
    /\ product_search = NoCall
    /\ vector_call = NoCall
    /\ expansion \in
           {[pc |-> "CALLED", expander |-> e, query |-> q,
             intent |-> analyze_customer_intent(q), expanded |-> << >>] :
                e \in Expanders, q \in ExpanderQueries}

other_than_expansion == <<index, request_vars, engine, search_call, sync_vars, product_search, vector_call>>

ExpandQuery ==
    /\ expansion.pc = "CALLED"
    /\ expansion.expander = "_expand_query"
    /\ \E expanded \in expand_query(expansion.query, expansion.intent) :
          expansion' = [expansion EXCEPT !.pc = "RETURNED", !.expanded = expanded]
    /\ UNCHANGED other_than_expansion

GetQueryExpansions ==
    /\ expansion.pc = "CALLED"
    /\ expansion.expander = "get_query_expansions"
    /\ \E expanded \in get_query_expansions(expansion.query) :
          expansion' = [expansion EXCEPT !.pc = "RETURNED", !.expanded = expanded]
    /\ UNCHANGED other_than_expansion

NextExpand == ExpandQuery \/ GetQueryExpansions

ExpandSpec == InitExpand /\ [][NextExpand]_vars

\* ------------------------------------------------------------------------
\* RAGService._analyze_query_intent (search strategy) and
\* RAGService._enhanced_product_search, step by step
\* ------------------------------------------------------------------------
\* category_keywords, in the dict's order; the value is category.title()
CategoryKeywords == <<
    [category |-> "Electronics",
     keywords |-> <<"laptop", "phone", "computer", "tablet", "electronics">>],
    [category |-> "Audio", keywords |-> <<"headphones", "speakers", "audio", "music">>],
    [category |-> "Clothing", keywords |-> <<"shirt", "pants", "clothing", "apparel">>],
    [category |-> "Books", keywords |-> <<"book", "novel", "reading">>] >>

\* the strategy fields _enhanced_product_search reads
analyze_query_intent(q) ==
    LET query_lower == Lower(q)
        hits == {k \in 1..Len(CategoryKeywords) : AnyIn(CategoryKeywords[k].keywords, query_lower)}
        priced == (IsSub("under", query_lower) \/ IsSub("below", query_lower))
                  /\ OneNumMatches(q, "") # {}
    IN  [category_filter |-> IF hits = {} THEN None ELSE CategoryKeywords[Min(hits)].category,
         price_range |-> IF priced
                         THEN Range(0, IntOf(GroupAt(q, NumAt(q, Min(OneNumMatches(q, ""))))))
                         ELSE NoRange]

\* ECommercePromptTemplates.get_category_suggestions
get_category_suggestions(q) ==
    LET query_lower == Lower(q)
        tech == IF AnyIn(<<"laptop", "computer", "phone", "tech", "gaming", "electronic">>,
                         query_lower)
                THEN <<"Electronics">> ELSE << >>
        auto == IF AnyIn(<<"car", "vehicle", "auto", "pickup", "truck">>, query_lower)
                THEN <<"Electronics", "Home & Kitchen">> ELSE << >>
        sport == IF AnyIn(<<"shoes", "running", "sports", "fitness">>, query_lower)
                 THEN <<"Sports">> ELSE << >>
        house == IF AnyIn(<<"kitchen", "home", "cooking", "appliance">>, query_lower)
                 THEN <<"Home & Kitchen">> ELSE << >>
        categories == tech \o auto \o sport \o house
    IN  IF Len(categories) = 0 THEN <<"Electronics", "Home & Kitchen", "Sports">>
        ELSE categories

\* cosine similarities around the thresholds 0.1 and 0.2 of the three passes
ProductSearchSims == {5, 15, 90}

ProductSearchQueries == {"running car", "tech car", "laptop", "shoes", "yoga mat"}

\* the index holds at most two of the rows
ProductSearchIndexes == {idx \in SUBSET ProductUniverse : Cardinality(idx) <= 2}

\* what one call of search_similar_products can return, whatever the query
SearchAny(idx, lim, threshold10, category_filter, price_range) ==
    UNION {search_similar_products(idx, sim, lim, threshold10, category_filter,
                                   price_range, "ok") :
              sim \in [ProductIds -> ProductSearchSims]}

InitProductSearch ==
    /\ index \in ProductSearchIndexes
    /\ query = ""
    /\ limit = 1
    /\ threshold = NoThreshold
    /\ RequestInit
    /\ engine = NoEngine
    /\ search_call = NoSearch
    /\ SyncIdle
    /\ expansion = NoCall
    /\ vector_call = NoCall
    /\ product_search \in
           {[pc |-> "CALLED", query |-> q, strategy |-> analyze_query_intent(q),
             products |-> << >>, primary_count |-> -1, pool |-> {}, categories |-> << >>,
             expansions_issued |-> 0, categories_issued |-> 0, result |-> << >>] :
                q \in ProductSearchQueries}

other_than_product_search == <<index, request_vars, engine, search_call, sync_vars, expansion, vector_call>>

\* what follows the expansion loop: Step 3 when nothing was found, else the
\* return of products[:10]
AfterExpansion(call, found) ==
    IF Len(found) = 0
    THEN [call EXCEPT !.pc = "CATEGORIES", !.products = found, !.pool = {},
                      !.categories = get_category_suggestions(call.query)]
    ELSE [call EXCEPT !.pc = "RETURNED", !.products = found, !.pool = {},
                      !.result = Take(found, 10)]

\* Step 1: direct search
DirectSearch ==
    /\ product_search.pc = "CALLED"
    /\ \E found \in SearchAny(index, 10, 100, product_search.strategy.category_filter,
                              product_search.strategy.price_range) :
          LET expanded == ExpansionTerms(product_search.query)
              call == [product_search EXCEPT !.primary_count = Len(found)]
          IN  product_search' =
                  IF Len(found) < 3 /\ expanded # {}
                  THEN [call EXCEPT !.pc = "EXPANDING", !.products = found,
                                    !.pool = expanded]
                  ELSE AfterExpansion(call, found)
    /\ UNCHANGED other_than_product_search

\* Step 2: one pass of "for expanded_query in expanded_queries"
ExpandedSearch ==
    /\ product_search.pc = "EXPANDING"
    /\ \E expanded_query \in product_search.pool :
       \E additional \in SearchAny(index, 5, 200, None, NoRange) :
          LET merged == Merge(product_search.products, additional)
              call == [product_search EXCEPT !.expansions_issued = @ + 1]
          IN  product_search' =
                  IF Len(merged) >= 8 \/ product_search.pool \ {expanded_query} = {}
                  THEN AfterExpansion(call, merged)
                  ELSE [call EXCEPT !.products = merged,
                                    !.pool = @ \ {expanded_query}]
    /\ UNCHANGED other_than_product_search

\* Step 3: one pass of "for category in category_suggestions"
CategorySearch ==
    /\ product_search.pc = "CATEGORIES"
    /\ \E category_products \in SearchAny(index, 5, 100, None, NoRange) :
          LET extended == product_search.products \o Take(category_products, 3)
              call == [product_search EXCEPT !.categories_issued = @ + 1,
                                             !.categories = Tail(@),
                                             !.products = extended]
          IN  product_search' =
                  IF Len(extended) >= 6 \/ Len(product_search.categories) = 1
                  THEN [call EXCEPT !.pc = "RETURNED", !.result = Take(extended, 10)]
                  ELSE call
    /\ UNCHANGED other_than_product_search

NextProductSearch == DirectSearch \/ ExpandedSearch \/ CategorySearch

ProductSearchSpec == InitProductSearch /\ [][NextProductSearch]_vars

\* ------------------------------------------------------------------------
\* Cosine similarity over stored embedding vectors:
\* NeonVectorService.search_similar_products and get_product_recommendations
\* ------------------------------------------------------------------------
\* embeddings of two components; every vector but the zero vector has norm 5
Vectors == {<<0, 0>>, <<3, 4>>, <<4, 3>>, <<5, 0>>}

Dot(a, b) == a[1] * b[1] + a[2] * b[2]

\* np.linalg.norm
Norm(v) == IF v = <<0, 0>> THEN 0 ELSE 5

\* np.dot(a, b) / (np.linalg.norm(a) * np.linalg.norm(b)), in hundredths:
\* numpy floats divide 0.0 by 0.0 to nan with a RuntimeWarning, no exception
cosine_similarity(a, b) ==
    IF Norm(a) * Norm(b) = 0 THEN NaN ELSE (100 * Dot(a, b)) \div (Norm(a) * Norm(b))

VectorThresholds == {0, 10, 70}

InitVector ==
    /\ index \in SUBSET ProductUniverse
    /\ query = ""
    /\ limit = 1
    /\ threshold = NoThreshold
    /\ RequestInit
    /\ engine = NoEngine
    /\ search_call = NoSearch
    /\ SyncIdle
    /\ expansion = NoCall
    /\ product_search = NoCall
    /\ vector_call \in
           {[pc |-> "CALLED", op |-> "search_similar_products", query_embedding |-> q,
             product_id |-> 0, embedding |-> e, limit |-> l, threshold |-> t,
             result |-> << >>, raised |-> FALSE] :
                q \in Vectors, e \in [ProductIds -> Vectors], l \in 1..MaxLimit,
                t \in VectorThresholds}
           \cup
           {[pc |-> "CALLED", op |-> "get_product_recommendations",
             query_embedding |-> e[i], product_id |-> i, embedding |-> e, limit |-> l,
             threshold |-> 0, result |-> << >>, raised |-> FALSE] :
                i \in ProductIds, e \in [ProductIds -> Vectors], l \in 1..MaxLimit}

other_than_vector_call == <<index, request_vars, engine, search_call, sync_vars, expansion, product_search>>

\* similarity of every stored embedding to the query's (or the target's)
SimilarityTo(v, embedding) == [i \in ProductIds |-> cosine_similarity(v, embedding[i])]

\* search_similar_products: every exception is caught inside, none leaves it
VectorSearch ==
    /\ vector_call.pc = "CALLED"
    /\ vector_call.op = "search_similar_products"
    /\ \E found \in search_similar_products(index,
                        SimilarityTo(vector_call.query_embedding, vector_call.embedding),
                        vector_call.limit, vector_call.threshold * 10, None, NoRange, "ok") :
          vector_call' = [vector_call EXCEPT !.pc = "RETURNED", !.result = found]
    /\ UNCHANGED other_than_vector_call

\* get_product_recommendations
VectorRecommendations ==
    /\ vector_call.pc = "CALLED"
    /\ vector_call.op = "get_product_recommendations"
    /\ \E found \in get_product_recommendations(index,
                        SimilarityTo(vector_call.query_embedding, vector_call.embedding),
                        IntId(vector_call.product_id), vector_call.limit) :
          vector_call' = [vector_call EXCEPT !.pc = "RETURNED", !.result = found]
    /\ UNCHANGED other_than_vector_call

NextVector == VectorSearch \/ VectorRecommendations

VectorSpec == InitVector /\ [][NextVector]_vars

\* ------------------------------------------------------------------------
\* _analyze_customer_intent as a function of the query
\* ------------------------------------------------------------------------
\* words customers use, keywords of every intent category among them
IntentWords == {"find", "Compare", "best", "cheap", "specs", "shipping", "HELP",
                "Laptop", "boots", "Show me", "which", "yoga"}

IntentQueries == IntentWords \cup {a \o " " \o b : a, b \in IntentWords}

InitIntent ==
    /\ index = {}
    /\ query \in IntentQueries
    /\ limit = 1
    /\ threshold = NoThreshold
    /\ RequestInit
    /\ ServiceIdle

NextIntent == AnalyzeIntent

IntentSpec == InitIntent /\ [][NextIntent]_vars

\* ------------------------------------------------------------------------
\* _evaluate_context_quality on lists that span up to four categories
\* ------------------------------------------------------------------------
MaxDiverseProducts == 4

\* one similarity in each band
DiverseSims == {10, 30, 90}

DiverseProducts ==
    UNION {[1..n -> [id : {0}, name : {"Product"}, category : EvalCategories,
                     price : {100}, similarity : DiverseSims]] :
              n \in 0..MaxDiverseProducts}

InitDiverse ==
    /\ index = {}
    /\ query \in {"compare Phone", "yoga mat"}
    /\ limit = MaxDiverseProducts
    /\ threshold = NoThreshold
    /\ pc = "RETRIEVED"
    /\ intent = analyze_customer_intent(query)
    /\ search_params = extract_search_parameters(query)
    /\ products \in DiverseProducts
    /\ primary_count = Len(products)
    /\ pool = {}
    /\ issued = 0
    /\ context_analysis = NoContext
    /\ system_prompt = None
    /\ llm_outcome = None
    /\ ai_response = None
    /\ result = NoResult
    /\ http = NoHttp
    /\ primary_outcome = "ok"
    /\ llm_calls = 0
    /\ min_similarity = NoMin
    /\ ServiceIdle

NextDiverse == EvaluateContext

DiverseSpec == InitDiverse /\ [][NextDiverse]_vars

\* ------------------------------------------------------------------------
\* A request that is not abandoned. Every call made on its behalf returns or
\* raises (requests.post has timeout=30; the searches return or raise), so
\* the request does not stay at a stage it can leave: from every position
\* but the last a step of Next is possible, and the position changes after
\* at most MaxExpansions passes of the expansion loop.
\* ------------------------------------------------------------------------
Stages == {"START", "INTENT_ANALYZED", "EXPANDING", "RETRIEVED", "CONTEXT_EVALUATED",
           "TEMPLATE_RESPONSE", "FALLBACK_RESPONSE", "DONE", "REPLIED"}

\* the request moves on
Proceed == pc # "REPLIED" /\ pc' \in Stages

InitFlow ==
    /\ index \in {{}, ProductUniverse}
    /\ query \in Queries
    /\ limit \in 1..MaxLimit
    /\ threshold \in Thresholds
    /\ RequestInit
    /\ ServiceIdle

FlowSpec == InitFlow /\ [][Next]_vars /\ WF_pc(Proceed)

\* ------------------------------------------------------------------------
\* Properties
\* ------------------------------------------------------------------------
\* _enhanced_product_retrieval has returned: products is the list it returned
Retrieved ==
    \/ pc \in {"RETRIEVED", "CONTEXT_EVALUATED", "TEMPLATE_RESPONSE", "FALLBACK_RESPONSE"}
    \/ (pc \in {"DONE", "REPLIED"} /\ result.success)

\* _evaluate_context_quality has returned context_analysis
Evaluated ==
    \/ pc \in {"CONTEXT_EVALUATED", "TEMPLATE_RESPONSE", "FALLBACK_RESPONSE"}
    \/ (pc \in {"DONE", "REPLIED"} /\ result.success)

SimilarityDescending(l) == \A k \in 1..(Len(l) - 1) : l[k].similarity >= l[k + 1].similarity
PriceDescending(l) == \A k \in 1..(Len(l) - 1) : l[k].price >= l[k + 1].price
PriceAscending(l) == \A k \in 1..(Len(l) - 1) : l[k].price <= l[k + 1].price

\* C1: the list retrieval returns is ordered: by similarity, descending, when
\* the quality preference is standard; by price, descending, when it is high;
\* by price, ascending, when it is budget.
C1_ResultsOrdered ==
    Retrieved =>
        /\ search_params.quality_preference = "standard" => SimilarityDescending(products)
        /\ search_params.quality_preference = "high" => PriceDescending(products)
        /\ search_params.quality_preference = "budget" => PriceAscending(products)

\* C2: when the intent carries a price range, every product retrieval returns
\* has its price in the range.
C2_PriceRangeRespected ==
    (Retrieved /\ intent.entities.price_range.some) =>
        \A k \in 1..Len(products) :
            /\ intent.entities.price_range.lo <= products[k].price
            /\ products[k].price <= intent.entities.price_range.hi

\* C3: when the primary pass, run with the intent's category filter, yields no
\* product, retrieval returns the empty list.
C3_CategoryFilterKept ==
    (Retrieved /\ intent.entities.category # None /\ primary_count = 0) =>
        products = << >>

\* C4: a request that retrieves no product, whether nothing matched or the
\* index could not be reached, gets the clarification strategy and the
\* clarification prompt, and the endpoint answers it with a response, not
\* with an error status.
C4_EmptyRetrievalClarifies ==
    /\ (Evaluated /\ Len(products) = 0) =>
           context_analysis.recommendation_strategy = "query_clarification"
    /\ (pc \in {"TEMPLATE_RESPONSE", "FALLBACK_RESPONSE"} /\ Len(products) = 0) =>
           system_prompt = "clarification"
    /\ (pc = "REPLIED" /\ result.success /\ result.products_found = 0
            /\ llm_outcome = "ok") =>
           http.status = 200

\* C5: the evaluation of an empty product list is: not sufficient, strategy
\* query_clarification, and one fixed confidence level.
C5_EmptyListEvaluation ==
    (Evaluated /\ Len(products) = 0) =>
        /\ context_analysis.sufficient_context = FALSE
        /\ context_analysis.recommendation_strategy = "query_clarification"
        /\ context_analysis.confidence_level = "low"

\* C6: with a comparison intent and fewer than two products (one, or none)
\* the strategy is expand_search.
C6_ComparisonExpands ==
    (Evaluated /\ intent.primary_intent = "comparison" /\ Len(products) < 2) =>
        context_analysis.recommendation_strategy = "expand_search"

Categories_of(l) == {l[k].category : k \in 1..Len(l)}

\* C7: for a non-empty list with at most three categories and an intent other
\* than comparison, the evaluation is fixed by the maximum similarity m:
\* m < 0.15 gives insufficient and query_clarification; 0.15 <= m < 0.4 gives
\* sufficient, medium, confident_recommendation; m >= 0.4 gives sufficient,
\* high, confident_recommendation.
C7_BandsByMaxSimilarity ==
    (/\ pc = "CONTEXT_EVALUATED"
     /\ Len(products) > 0
     /\ Cardinality(Categories_of(products)) <= 3
     /\ intent.primary_intent # "comparison") =>
        LET m == Max(Similarities(products))
        IN  /\ m < 15 =>
                /\ context_analysis.sufficient_context = FALSE
                /\ context_analysis.recommendation_strategy = "query_clarification"
            /\ (15 <= m /\ m < 40) =>
                /\ context_analysis.sufficient_context = TRUE
                /\ context_analysis.confidence_level = "medium"
                /\ context_analysis.recommendation_strategy = "confident_recommendation"
            /\ m >= 40 =>
                /\ context_analysis.sufficient_context = TRUE
                /\ context_analysis.confidence_level = "high"
                /\ context_analysis.recommendation_strategy = "confident_recommendation"

\* a list whose maximum is the boundary 0.4 and whose other entry is far lower
C7_Witness ==
    /\ pc = "CONTEXT_EVALUATED"
    /\ intent.primary_intent = "general_inquiry"
    /\ Len(products) = 2
    /\ Similarities(products) = {10, 40}
    /\ context_analysis.confidence_level = "high"

DependencyFailed ==
    \/ primary_outcome \in {"embedding_error", "index_error"}
    \/ llm_outcome \in {"timeout", "rate_limited", "server_error"}

\* C8: generate_ecommerce_response always returns a result with a response
\* text and a product list, and never raises, whatever dependency failed.
C8_AlwaysStructuredResult ==
    pc \in {"DONE", "REPLIED"} =>
        /\ result.raised = FALSE
        /\ result.ai_response # None
        /\ result.products_found = Len(result.products)

\* the index and the backend both failed and the request returned
C8_Witness ==
    /\ pc = "DONE"
    /\ primary_outcome = "index_error"
    /\ llm_outcome = "timeout"
    /\ result.ai_response = generate_fallback_response(query)

\* C9: after an internal failure nothing delivered carries exception text or
\* a 5xx status: the result has no error text and the endpoint answers 200.
C9_NoTechnicalFailureOutput ==
    /\ pc \in {"DONE", "REPLIED"} => result.error = None
    /\ (pc = "REPLIED" /\ (DependencyFailed \/ ~result.success)) =>
           /\ http.status < 500
           /\ http.detail = None

\* C10: on a rate-limit answer of the backend the response text is a message
\* of its own, different from the text for a timeout and from the text for
\* any other backend failure.
C10_RateLimitMessageDistinct ==
    (pc = "FALLBACK_RESPONSE" /\ llm_outcome = "rate_limited") =>
        \A text \in LlmTexts :
            /\ ai_response # generate_ollama_response(query, "timeout", text)
            /\ ai_response # generate_ollama_response(query, "server_error", text)

\* C11: without a configured backend (no API key, openai_client is None) no
\* operation of RAGService issues a backend call, and the chat response is
\* the deterministic fallback text.
C11_NoCallWithoutBackend ==
    (engine.op # None /\ engine.pc = "RETURNED" /\ ~engine.openai_client) =>
        /\ engine.calls = 0
        /\ engine.op = "generate_response" =>
               engine.response = rag_fallback_response(engine.query, engine.products)

C20_AtMostLimitReturned ==
    Retrieved => Len(products) <= limit

C20_Witness ==
    /\ pc = "RETRIEVED"
    /\ issued > 0
    /\ primary_count < Len(products)
    /\ Len(products) = limit

\* C19: the similar-items operation returns at most limit products, none of
\* them with the id of the target product whether the id was passed as an
\* integer or as a string, and nothing when the target has no stored
\* embedding.
C19_SimilarItemsExcludeTarget ==
    (engine.op \in {"get_product_recommendations", "similar_to"}
     /\ engine.pc = "RETURNED") =>
        /\ Len(engine.recommendations) <= engine.limit
        /\ \A k \in 1..Len(engine.recommendations) :
               engine.recommendations[k].id.value # engine.product_id.value
        /\ ~engine.embedded => engine.recommendations = << >>

\* C13: a refresh over N products attempts all N even when embedding or
\* storing some of them fails: on completion processed = N, processed =
\* successful + failed + skipped, and the only products that failed are the
\* ones whose own embedding or storing failed.
C13_RefreshAttemptsAll ==
    \A r \in Runs :
        sync[r].pc = "done" =>
            /\ sync[r].stats.processed = sync[r].total
            /\ sync[r].stats.processed =
                   sync[r].stats.successful + sync[r].stats.failed
                   + sync[r].stats.skipped
            /\ sync[r].stats.failed = sync[r].faults

\* C14: a refresh run right after a complete one, on an unchanged catalog of
\* N products and with no failure, reports processed = N, successful = 0 and
\* failed = 0 with every product skipped; a product whose catalog data
\* changed between the two runs is not skipped.
C14_SecondRefreshSkipsCurrent ==
    \A r \in Runs :
        ( /\ sync[r].pc = "done"
          /\ sync[r].round >= 2
          /\ sync[r].previous.failed = 0
          /\ sync[r].faults = 0 ) =>
            /\ sync[r].changed = {} =>
                   /\ sync[r].stats.processed = sync[r].total
                   /\ sync[r].stats.successful = 0
                   /\ sync[r].stats.failed = 0
                   /\ sync[r].stats.skipped = sync[r].total
            /\ \A c \in sync[r].changed :
                   c.kind = "update_product" => c.id \notin sync[r].skipped_ids

\* C15: once a refresh has completed after a product was deactivated or
\* deleted, every id in the index belongs to an active product of the catalog.
C15_NoEmbeddingOfInactive ==
    \A r \in Runs :
        (sync[r].pc = "done" /\ sync[r].faults = 0 /\ dirty = {}) =>
            \A row \in index :
                \E p \in catalog : p.id = row.id /\ p.is_active

C17_UpsertsAtomicWhenInterleaved ==
    /\ \A i \in CatalogIds : Cardinality({row \in index : row.id = i}) <= 1
    /\ \A r \in Runs : sync[r].stats.failed = 0
    /\ \A row \in searched : \E p \in catalog : row = Row(p)

\* the stored products a search must consider: those that satisfy the
\* category and price predicates and reach the minimum similarity
Matching ==
    {p \in index :
        /\ search_call.category_filter # None =>
               Lower(p.category) = Lower(search_call.category_filter)
        /\ search_call.price_range.some =>
               /\ search_call.price_range.lo <= p.price
               /\ p.price <= search_call.price_range.hi
        /\ search_call.sim[p.id] >= search_call.threshold}

\* what a returned list must be: as many entries as the limit and the
\* matching products allow, each a matching product with its similarity,
\* no product twice, in descending similarity, and no matching product left
\* out that is more similar than a returned one
TopKOfMatching ==
    LET found == search_call.result
        ids == {found[k].id : k \in 1..Len(found)}
    IN  /\ Len(found) = Min({search_call.limit, Cardinality(Matching)})
        /\ Cardinality(ids) = Len(found)
        /\ \A k \in 1..Len(found) :
               /\ \E p \in Matching :
                     /\ p.id = found[k].id /\ p.name = found[k].name
                     /\ p.category = found[k].category /\ p.price = found[k].price
               /\ found[k].similarity = search_call.sim[found[k].id]
        /\ \A k \in 1..(Len(found) - 1) :
               found[k].similarity >= found[k + 1].similarity
        /\ \A p \in Matching : \A k \in 1..Len(found) :
               p.id \notin ids => search_call.sim[p.id] <= found[k].similarity

\* C18: search_similar_products returns exactly the first k, by descending
\* similarity, of the stored products that satisfy the category and price
\* predicates and reach the minimum similarity; the predicates are applied
\* before ranking and truncation.
C18_TopKAfterPredicates == search_call.pc = "RETURNED" => TopKOfMatching

\* C26: an expansion search is issued only while the merged result count is
\* below limit: whenever the loop is about to issue its next search (the
\* request is at EXPANDING with an expanded query still to take), fewer than
\* limit products are merged, the first pass of the loop included.
C26_ExpansionOnlyBelowLimit ==
    pc = "EXPANDING" => (pool # {} /\ Len(products) < limit)

\* C27: the threshold the caller supplies, 0 included, is the one the
\* request uses: the primary search runs with 0.8 times it and an expansion
\* search with 0.6 times it, and the default is used only when the caller
\* supplies none (min_similarity is in thousandths).
C27_CallerThresholdUsed ==
    LET nominal == IF threshold.given THEN threshold.value
                   ELSE default_similarity_threshold
    IN  /\ min_similarity.primary >= 0 => min_similarity.primary = nominal * 8
        /\ min_similarity.expansion >= 0 => min_similarity.expansion = nominal * 6

\* C22: the list a query expander returns contains no element equal to the
\* original query string, also when the query is a synonym of a term it
\* contains.
C22_OriginalQueryNotReturned ==
    expansion.pc = "RETURNED" =>
        \A k \in 1..Len(expansion.expanded) : expansion.expanded[k] # expansion.query

\* C23: a query expander returns at most 5 strings and no string twice.
C23_AtMostFiveDistinct ==
    expansion.pc = "RETURNED" =>
        /\ Len(expansion.expanded) <= 5
        /\ \A a, b \in 1..Len(expansion.expanded) :
               a # b => expansion.expanded[a] # expansion.expanded[b]

\* C21: the list retrieval returns never holds two entries with the same
\* product id, whichever searches (primary, expansion, category fallback)
\* found the product.
C21_NoProductTwice ==
    /\ pc = "RETRIEVED" => Cardinality(Ids(products)) = Len(products)
    /\ product_search.pc = "RETURNED" =>
           Cardinality(Ids(product_search.result)) = Len(product_search.result)

\* C25: expansion searches are issued only if the primary pass returned
\* fewer than 3 products, and at most 5 of them are issued in a request.
C25_AtMostFiveExpansionSearches ==
    /\ issued > 0 => primary_count < 3
    /\ issued <= 5
    /\ product_search.pc # None =>
           /\ product_search.expansions_issued > 0 => product_search.primary_count < 3
           /\ product_search.expansions_issued <= 5

\* the similarity the operation is to work with: 0 when a norm is zero
SimilarityOrZero(p) ==
    IF Norm(vector_call.query_embedding) * Norm(vector_call.embedding[p.id]) = 0 THEN 0
    ELSE cosine_similarity(vector_call.query_embedding, vector_call.embedding[p.id])

\* the stored products the operation ranks when a zero norm counts as 0
Ranked ==
    IF vector_call.op = "search_similar_products"
    THEN {p \in index : SimilarityOrZero(p) >= vector_call.threshold}
    ELSE IF \E p \in index : p.id = vector_call.product_id
    THEN {p \in index : p.id # vector_call.product_id}
    ELSE {}

\* C24: with a zero-norm query or stored vector the similarity is taken to
\* be 0 and the operation completes without raising: no product is returned
\* with a NaN similarity, the returned products are in descending similarity
\* and as many are returned as limit and the ranked products allow.
C24_ZeroNormIsZeroSimilarity ==
    vector_call.pc = "RETURNED" =>
        LET found == vector_call.result
        IN  /\ ~vector_call.raised
            /\ \A k \in 1..Len(found) : found[k].similarity # NaN
            /\ \A k \in 1..(Len(found) - 1) :
                   found[k].similarity >= found[k + 1].similarity
            /\ Len(found) = Min({vector_call.limit, Cardinality(Ranked)})

\* the intent categories in their fixed order of priority
IntentOrder == <<"product_search", "comparison", "recommendation", "price_inquiry",
                 "feature_inquiry", "availability", "support">>

\* the category's keyword list matches the lower-cased query
KeywordsMatch(category) ==
    \E k \in 1..Len(IntentPatterns) :
        /\ IntentPatterns[k].intent = category
        /\ \E j \in 1..Len(IntentPatterns[k].patterns) :
               IsSub(IntentPatterns[k].patterns[j], Lower(query))

\* C28: primary_intent is the first category, in the fixed order, whose
\* keyword list matches the lower-cased query; it is general_inquiry exactly
\* when no category matches; all_intents lists every matching category in
\* that order.
C28_PrimaryIntentIsFirstMatch ==
    pc = "INTENT_ANALYZED" =>
        LET matching == {k \in 1..Len(IntentOrder) : KeywordsMatch(IntentOrder[k])}
        IN  /\ (intent.primary_intent = "general_inquiry") <=> (matching = {})
            /\ matching # {} => intent.primary_intent = IntentOrder[Min(matching)]
            /\ intent.all_intents = SelectSeq(IntentOrder, KeywordsMatch)

\* a query whose first word belongs to a later category than its second
C28_Witness ==
    /\ pc = "INTENT_ANALYZED"
    /\ query = "best find"
    /\ intent.primary_intent = "product_search"
    /\ intent.all_intents = <<"product_search", "recommendation">>

\* C29: with more than 3 distinct categories among the products a
\* confidence that the maximum similarity m makes high (m >= 0.4) is reported
\* as medium, while sufficient_context and the strategy stay what the band of
\* m gives; with 3 or fewer categories high stays high, and a confidence
\* below high is what the band gives whatever the number of categories.
C29_DiversityDowngradesHighOnly ==
    (pc = "CONTEXT_EVALUATED" /\ Len(products) > 0) =>
        LET m == Max(Similarities(products))
            spread == Cardinality(Categories_of(products))
        IN  /\ (spread > 3 /\ m >= 40) => context_analysis.confidence_level = "medium"
            /\ (spread <= 3 /\ m >= 40) => context_analysis.confidence_level = "high"
            /\ (15 <= m /\ m < 40) => context_analysis.confidence_level = "medium"
            /\ m < 15 => context_analysis.confidence_level = "very_low"
            /\ spread > 3 =>
                   /\ context_analysis.sufficient_context = (m >= 15)
                   /\ context_analysis.recommendation_strategy =
                          IF m < 15 THEN "query_clarification"
                          ELSE "confident_recommendation"

\* four products of four categories, the best of them a high match
C29_Witness ==
    /\ pc = "CONTEXT_EVALUATED"
    /\ Len(products) = 4
    /\ Cardinality(Categories_of(products)) = 4
    /\ Max(Similarities(products)) = 90
    /\ context_analysis.confidence_level = "medium"
    /\ context_analysis.sufficient_context = TRUE
    /\ context_analysis.recommendation_strategy = "confident_recommendation"

\* the steps of the state machine of a request; EXPANDING is retrieval still
\* under way and REPLIED the endpoint's answer after DONE
StageOrder ==
    {<<"START", "INTENT_ANALYZED">>,
     <<"INTENT_ANALYZED", "EXPANDING">>, <<"EXPANDING", "EXPANDING">>,
     <<"INTENT_ANALYZED", "RETRIEVED">>, <<"EXPANDING", "RETRIEVED">>,
     <<"RETRIEVED", "CONTEXT_EVALUATED">>,
     <<"CONTEXT_EVALUATED", "TEMPLATE_RESPONSE">>,
     <<"CONTEXT_EVALUATED", "FALLBACK_RESPONSE">>,
     <<"TEMPLATE_RESPONSE", "DONE">>, <<"FALLBACK_RESPONSE", "DONE">>,
     <<"DONE", "REPLIED">>}

\* the request ended in a backend-generated response or in the fallback one
EndedInOneResponse ==
    pc \in {"DONE", "REPLIED"} =>
        (result.ai_response \in LlmTexts) # (result.ai_response = generate_fallback_response(query))

\* C30: every request goes through intent analysis, retrieval, context
\* evaluation and response generation in that order, each at most once
\* (no step outside the state machine is ever taken), ends in exactly one of
\* a backend-generated or a fallback response, and reaches DONE whatever the
\* dependencies do.
C30_StagesInOrderThenDone ==
    /\ [][\E step \in StageOrder : pc = step[1] /\ pc' = step[2]]_vars
    /\ []EndedInOneResponse
    /\ <>(pc \in {"DONE", "REPLIED"})

====
